---- MODULE Spec2Model ----
(***************************************************************************)
(* TUFLOW validator: the recursive file-graph analyser (diagnostics.ts),   *)
(* its path parsing (pathParsing.ts), the version matcher (versioning.ts), *)
(* the quick fixes (codeActions.ts) and the severity filter.               *)
(*                                                                         *)
(* Text (file contents, lines, paths, file names) is a sequence of         *)
(* one-character strings, and the scanners of the program are operators    *)
(* over such sequences.  Indexes named "js" are 0-based as in the source;  *)
(* TLA+ sequences are 1-based.                                             *)
(***************************************************************************)
EXTENDS Integers, Sequences, FiniteSets, TLC

(***************************************************************************)
(* Characters.                                                             *)
(***************************************************************************)
Digits == {"0", "1", "2", "3", "4", "5", "6", "7", "8", "9"}

LowerLetters ==
    {"a", "b", "c", "d", "e", "f", "g", "h", "i", "j", "k", "l", "m",
     "n", "o", "p", "q", "r", "s", "t", "u", "v", "w", "x", "y", "z"}

LowerOf ==
    ("A" :> "a") @@ ("B" :> "b") @@ ("C" :> "c") @@ ("D" :> "d") @@ ("E" :> "e") @@ ("F" :> "f") @@ ("G" :> "g") @@ ("H" :> "h") @@ ("I" :> "i") @@ ("J" :> "j") @@ ("K" :> "k") @@ ("L" :> "l") @@ ("M" :> "m")
    @@ ("N" :> "n") @@ ("O" :> "o") @@ ("P" :> "p") @@ ("Q" :> "q") @@ ("R" :> "r") @@ ("S" :> "s") @@ ("T" :> "t") @@ ("U" :> "u") @@ ("V" :> "v") @@ ("W" :> "w") @@ ("X" :> "x") @@ ("Y" :> "y") @@ ("Z" :> "z")

UpperLetters == DOMAIN LowerOf

\* String.prototype.toLowerCase, one character.
LowerChar(c) == IF c \in UpperLetters THEN LowerOf[c] ELSE c

\* /[a-z]/i
IsLetter(c) == LowerChar(c) \in LowerLetters

\* /\d/
IsDigit(c) == c \in Digits

\* /\w/
IsWordChar(c) == IsLetter(c) \/ IsDigit(c) \/ c = "_"

\* /\s/, and the characters String.prototype.trim removes.
IsSpace(c) == c \in {" ", "\t"}

(***************************************************************************)
(* Strings.                                                                *)
(***************************************************************************)
Max(a, b) == IF a >= b THEN a ELSE b

Min(a, b) == IF a <= b THEN a ELSE b

Range(s) == {s[k] : k \in DOMAIN s}

ToLower(s) == [k \in DOMAIN s |-> LowerChar(s[k])]

\* s.slice(from, to) with 0-based from (inclusive) and to (exclusive).
JsSlice(s, from, to) == SubSeq(s, Max(from, 0) + 1, Min(to, Len(s)))

\* s.slice(from)
JsSliceFrom(s, from) == JsSlice(s, from, Len(s))

\* Whether p occurs in s at the 0-based index i.
OccursAt(s, p, i) ==
    /\ i >= 0
    /\ i + Len(p) <= Len(s)
    /\ \A k \in 1..Len(p) : s[i + k] = p[k]

\* s.indexOf(p): the 0-based index of the first occurrence, -1 when none.
RECURSIVE IndexOfFrom(_, _, _)
IndexOfFrom(s, p, i) ==
    IF i + Len(p) > Len(s) THEN -1
    ELSE IF OccursAt(s, p, i) THEN i
    ELSE IndexOfFrom(s, p, i + 1)

JsIndexOf(s, p) == IndexOfFrom(s, p, 0)

\* s.lastIndexOf(p)
RECURSIVE LastIndexOfFrom(_, _, _)
LastIndexOfFrom(s, p, i) ==
    IF i < 0 THEN -1
    ELSE IF OccursAt(s, p, i) THEN i
    ELSE LastIndexOfFrom(s, p, i - 1)

JsLastIndexOf(s, p) == LastIndexOfFrom(s, p, Len(s) - Len(p))

\* s.includes(p)
Includes(s, p) == JsIndexOf(s, p) >= 0

\* s.startsWith(p)
StartsWith(s, p) == OccursAt(s, p, 0)

\* s.endsWith(p)
EndsWith(s, p) == OccursAt(s, p, Len(s) - Len(p))

\* The number of leading white-space characters of s.
RECURSIVE SpacesFrom(_, _)
SpacesFrom(s, k) ==
    IF k > Len(s) THEN 0
    ELSE IF IsSpace(s[k]) THEN 1 + SpacesFrom(s, k + 1)
    ELSE 0

LeadingSpaces(s) == SpacesFrom(s, 1)

\* The number of trailing white-space characters of s.
RECURSIVE SpacesBefore(_, _)
SpacesBefore(s, k) ==
    IF k < 1 THEN 0
    ELSE IF IsSpace(s[k]) THEN 1 + SpacesBefore(s, k - 1)
    ELSE 0

TrailingSpaces(s) == SpacesBefore(s, Len(s))

\* s.trimStart()
TrimStart(s) == JsSliceFrom(s, LeadingSpaces(s))

\* s.trim()
TrimBy(s, lead) ==
    IF lead = Len(s) THEN <<>> ELSE SubSeq(s, lead + 1, Len(s) - TrailingSpaces(s))

Trim(s) == TrimBy(s, LeadingSpaces(s))

\* s.replace(/\\/g, '/') and the like: every character a replaced by b.
ReplaceChar(s, a, b) == [k \in DOMAIN s |-> IF s[k] = a THEN b ELSE s[k]]

\* s.split(sep) for a one-character separator: the pieces, empty ones included.
RECURSIVE SplitOn(_, _)
SplitOn(s, sep) ==
    LET i == JsIndexOf(s, <<sep>>)
    IN  IF i < 0 THEN <<s>>
        ELSE <<JsSlice(s, 0, i)>> \o SplitOn(JsSliceFrom(s, i + 1), sep)

\* parts.join(sep)
RECURSIVE JoinWith(_, _)
JoinWith(parts, sep) ==
    IF parts = <<>> THEN <<>>
    ELSE IF Len(parts) = 1 THEN parts[1]
    ELSE parts[1] \o <<sep>> \o JoinWith(Tail(parts), sep)

\* The decimal digits of a natural number, as n.toString() writes them.
RECURSIVE NatToString(_)
NatToString(n) ==
    LET d == <<"0", "1", "2", "3", "4", "5", "6", "7", "8", "9">>
    IN  IF n < 10 THEN <<d[n + 1]>> ELSE NatToString(n \div 10) \o <<d[(n % 10) + 1]>>

DigitValue(c) ==
    CASE c = "0" -> 0 [] c = "1" -> 1 [] c = "2" -> 2 [] c = "3" -> 3 [] c = "4" -> 4
      [] c = "5" -> 5 [] c = "6" -> 6 [] c = "7" -> 7 [] c = "8" -> 8 [] c = "9" -> 9

\* Number.parseInt(s, 10) on a run of digits.
RECURSIVE ParseInt(_)
ParseInt(s) ==
    IF s = <<>> THEN 0
    ELSE 10 * ParseInt(SubSeq(s, 1, Len(s) - 1)) + DigitValue(s[Len(s)])

\* String.prototype.toUpperCase, one character.
UpperChar(c) ==
    IF c \in LowerLetters THEN CHOOSE u \in UpperLetters : LowerOf[u] = c ELSE c

ToUpper(s) == [k \in DOMAIN s |-> UpperChar(s[k])]

\* The words of a message as the source writes them: the first letter of every
\* word in upper case, and 1D and 2D.
ToUpperFirst(s) ==
    [k \in DOMAIN s |-> IF k = 1 \/ s[k - 1] = " " \/ s[k - 1] \in Digits THEN UpperChar(s[k]) ELSE s[k]]

\* s.replace(/\s+/g, ' '): every maximal run of white space becomes one space.
RECURSIVE CollapseSpaces(_)
CollapseSpaces(s) ==
    IF s = <<>> THEN <<>>
    ELSE IF IsSpace(s[1])
         THEN <<" ">> \o CollapseSpaces(JsSliceFrom(s, LeadingSpaces(s)))
         ELSE <<s[1]>> \o CollapseSpaces(Tail(s))

(***************************************************************************)
(* Node's path module (POSIX flavour; path.win32.isAbsolute is kept for    *)
(* resolvePath).  A path is a string.                                      *)
(***************************************************************************)
SLASH == "/"

\* The non-empty segments of a path between slashes.
Segments(p) == SelectSeq(SplitOn(p, SLASH), LAMBDA seg : seg # <<>>)

\* path.isAbsolute
IsAbsolute(p) == Len(p) > 0 /\ p[1] = SLASH

\* path.win32.isAbsolute: a leading separator, or a drive letter, a colon and a
\* separator.
Win32IsAbsolute(p) ==
    \/ Len(p) > 0 /\ p[1] \in {"/", "\\"}
    \/ Len(p) > 2 /\ IsLetter(p[1]) /\ p[2] = ":" /\ p[3] \in {"/", "\\"}

\* normalizeString of Node's path: "." segments dropped, ".." removes the segment
\* before it (above the root it is dropped, in a relative path it is kept).
RECURSIVE NormalizeSegments(_, _, _)
NormalizeSegments(todo, done, absolute) ==
    IF todo = <<>> THEN done
    ELSE LET seg == Head(todo)
         IN  IF seg = <<".">> THEN NormalizeSegments(Tail(todo), done, absolute)
             ELSE IF seg = <<".", ".">>
                  THEN IF done # <<>> /\ done[Len(done)] # <<".", ".">>
                       THEN NormalizeSegments(Tail(todo), SubSeq(done, 1, Len(done) - 1), absolute)
                       ELSE IF absolute
                            THEN NormalizeSegments(Tail(todo), done, absolute)
                            ELSE NormalizeSegments(Tail(todo), Append(done, seg), absolute)
                  ELSE NormalizeSegments(Tail(todo), Append(done, seg), absolute)

\* path.normalize
Normalize(p) ==
    LET abs == IsAbsolute(p)
        body == JoinWith(NormalizeSegments(Segments(p), <<>>, abs), SLASH)
        trail == Len(p) > 0 /\ p[Len(p)] = SLASH
    IN  IF p = <<>> THEN <<".">>
        ELSE IF body = <<>> THEN (IF abs THEN <<SLASH>> ELSE IF trail THEN <<".", SLASH>> ELSE <<".">>)
        ELSE (IF abs THEN <<SLASH>> ELSE <<>>) \o body \o (IF trail THEN <<SLASH>> ELSE <<>>)

\* path.resolve(baseDir, p) for an absolute baseDir: an absolute, normalized path
\* without a trailing slash.
Resolve(baseDir, p) ==
    LET segs == IF IsAbsolute(p) THEN Segments(p) ELSE Segments(baseDir) \o Segments(p)
    IN  <<SLASH>> \o JoinWith(NormalizeSegments(segs, <<>>, TRUE), SLASH)

\* path.dirname
Dirname(p) ==
    LET segs == Segments(p)
    IN  IF Len(segs) <= 1
        THEN (IF IsAbsolute(p) THEN <<SLASH>> ELSE <<".">>)
        ELSE (IF IsAbsolute(p) THEN <<SLASH>> ELSE <<>>)
                 \o JoinWith(SubSeq(segs, 1, Len(segs) - 1), SLASH)

\* path.basename(p)
Basename(p) ==
    LET segs == Segments(p) IN IF segs = <<>> THEN <<>> ELSE segs[Len(segs)]

\* path.extname: from the last dot of the base name, unless that dot is its first
\* character or there is none.
ExtnameOfBase(b) ==
    LET i == JsLastIndexOf(b, <<".">>)
    IN  IF i <= 0 \/ b = <<".", ".">> THEN <<>> ELSE JsSliceFrom(b, i)

Extname(p) == ExtnameOfBase(Basename(p))

\* path.basename(p, ext): the suffix ext is removed when the base name ends with
\* it, compared character by character (case-sensitively), and is not all of it.
StripExt(b, ext) ==
    IF ext # <<>> /\ Len(b) > Len(ext) /\ EndsWith(b, ext)
    THEN JsSlice(b, 0, Len(b) - Len(ext))
    ELSE b

BasenameExt(p, ext) == StripExt(Basename(p), ext)

\* path.join(dir, name)
PathJoin(dir, name) == Normalize(dir \o <<SLASH>> \o name)

(***************************************************************************)
(* String literals of the source.                                          *)
(***************************************************************************)
S_EqEq == <<"=", "=">>

S_Bang == <<"!">>

S_Pipe == <<"|">>

S_MacroOpen == <<"<", "<">>

S_MacroClose == <<">", ">">>

S_Hash == <<"#">>

S_tpf_ignore == <<"t", "p", "f", "-", "i", "g", "n", "o", "r", "e">>

S_tpf_ignore_file == <<"t", "p", "f", "-", "i", "g", "n", "o", "r", "e", "-", "f", "i", "l", "e">>

S_if == <<"i", "f">>

S_else == <<"e", "l", "s", "e">>

S_end == <<"e", "n", "d">>

S_define == <<"d", "e", "f", "i", "n", "e">>

S_event == <<"e", "v", "e", "n", "t">>

S_scenario == <<"s", "c", "e", "n", "a", "r", "i", "o">>

S_start == <<"s", "t", "a", "r", "t">>

S_1d == <<"1", "d">>

S_2d == <<"2", "d">>

S_domain == <<"d", "o", "m", "a", "i", "n">>

S_PAUSE == <<"P", "A", "U", "S", "E">>

S_DEFINE_EVENT == <<"D", "E", "F", "I", "N", "E", " ", "E", "V", "E", "N", "T">>

S_IF_EVENT == <<"I", "F", " ", "E", "V", "E", "N", "T">>

S_ELSE_IF_EVENT == <<"E", "L", "S", "E", " ", "I", "F", " ", "E", "V", "E", "N", "T">>

S_ELSEIF_EVENT == <<"E", "L", "S", "E", "I", "F", " ", "E", "V", "E", "N", "T">>

S_BC_EVENT_SOURCE == <<"B", "C", " ", "E", "V", "E", "N", "T", " ", "S", "O", "U", "R", "C", "E">>

S_SET_VARIABLE_VERSION == <<"S", "E", "T", " ", "V", "A", "R", "I", "A", "B", "L", "E", " ", "V", "E", "R", "S", "I", "O", "N">>

S_End_If == <<"E", "n", "d", " ", "I", "f">>

S_End_Define == <<"E", "n", "d", " ", "D", "e", "f", "i", "n", "e">>

S_End_1D_Domain == <<"E", "n", "d", " ", "1", "D", " ", "D", "o", "m", "a", "i", "n">>

S_End_2D_Domain == <<"E", "n", "d", " ", "2", "D", " ", "D", "o", "m", "a", "i", "n">>

EXT_tcf == <<".", "t", "c", "f">>

EXT_tgc == <<".", "t", "g", "c">>

EXT_tbc == <<".", "t", "b", "c">>

EXT_trd == <<".", "t", "r", "d">>

EXT_ecf == <<".", "e", "c", "f">>

EXT_qcf == <<".", "q", "c", "f">>

EXT_tef == <<".", "t", "e", "f">>

(***************************************************************************)
(* constants.ts                                                            *)
(***************************************************************************)
CONTROL_FILE_EXTENSIONS == {EXT_tcf, EXT_tgc, EXT_tbc, EXT_trd, EXT_ecf, EXT_qcf, EXT_tef}

LATEST_CHECK_CONTROL_EXTENSIONS == {EXT_tcf, EXT_tgc, EXT_tbc, EXT_trd, EXT_ecf, EXT_qcf}

ISSUE_SUMMARY_SEVERITY == "Warning"

(***************************************************************************)
(* Diagnostics.  A vscode.Diagnostic is its range (one line, two columns), *)
(* its severity and its message; the message is held as its kind and the   *)
(* values the source interpolates into it:                                 *)
(*   FileNotFound  "File not found: <text>"                                *)
(*   Summary       "Referenced file has <n> issue(s): <text>"              *)
(*   NotLatest     "Referenced file is not the latest version in its       *)
(*                  folder: <text> (found <n>, latest <m>)."               *)
(*   Ambiguous     "Unable to determine latest version for "<text>"        *)
(*                  because multiple numeric tokens were found."           *)
(*   VersionToken  "Version token "<text>" found in filename." (n = 1) or  *)
(*                  "... not found in filename." (n = 0)                   *)
(*   MissingToken  "Filename is missing token "<text>" listed in this      *)
(*                  control file."                                         *)
(*   Block         "<opener> statement is missing a closing <text>."       *)
(***************************************************************************)
Diagnostic(line, startChar, endChar, kind, severity, text, n, m) ==
    [line |-> line, startChar |-> startChar, endChar |-> endChar, kind |-> kind,
     severity |-> severity, text |-> text, n |-> n, m |-> m]

(***************************************************************************)
(* pathParsing.ts                                                          *)
(***************************************************************************)
\* !isNaN(Number(value)) for a trimmed, non-empty value: an optional sign and
\* decimal digits with at most one point.  (Number also accepts exponents,
\* hexadecimal literals and Infinity, which no modelled text uses.)
IsNumeric(value) ==
    LET body == IF value # <<>> /\ value[1] \in {"+", "-"} THEN Tail(value) ELSE value
    IN  /\ \E k \in DOMAIN body : IsDigit(body[k])
        /\ \A k \in DOMAIN body : IsDigit(body[k]) \/ body[k] = "."
        /\ Cardinality({k \in DOMAIN body : body[k] = "."}) <= 1

isLikelyFile(value) ==
    IF IsNumeric(value) THEN FALSE
    ELSE IF Includes(value, <<"/">>) \/ Includes(value, <<"\\">>) THEN TRUE
    ELSE Extname(value) # <<>>

normalizeKey(keyText) == ToUpper(Trim(CollapseSpaces(keyText)))

skipPrefixes ==
    {S_DEFINE_EVENT, S_IF_EVENT, S_ELSE_IF_EVENT, S_ELSEIF_EVENT, S_BC_EVENT_SOURCE}

shouldSkipKeyForFileLookup(keyText) ==
    LET normalized == normalizeKey(keyText)
    IN  \/ normalized = S_PAUSE
        \/ \E prefix \in skipPrefixes : StartsWith(normalized, prefix)

\* The matches of /[^|]+/g: every maximal run without "|", with its 0-based index.
RECURSIVE PipeSegments(_, _)
PipeSegments(valueText, from) ==
    LET rest == JsSliceFrom(valueText, from)
        bar == JsIndexOf(rest, S_Pipe)
    IN  IF from >= Len(valueText) THEN <<>>
        ELSE IF bar = 0 THEN PipeSegments(valueText, from + 1)
        ELSE IF bar < 0 THEN <<[text |-> rest, index |-> from]>>
        ELSE <<[text |-> JsSlice(rest, 0, bar), index |-> from]>>
                 \o PipeSegments(valueText, from + bar + 1)

\* A variant of SegmentCandidate: a segment with a macro is truncated at its
\* first ">>" like any other and is not skipped.
C13_SegmentCandidateKeepsMacro(seg, valueStartIndex, lineIndex) ==
    LET segmentText == seg.text
        layerIndex == JsIndexOf(segmentText, S_MacroClose)
        pathPortion == IF layerIndex >= 0 THEN JsSlice(segmentText, 0, layerIndex) ELSE segmentText
        trimmed == Trim(pathPortion)
        leadingWhitespace == Len(pathPortion) - Len(TrimStart(pathPortion))
        startChar == valueStartIndex + seg.index + leadingWhitespace
        endChar == startChar + Len(trimmed)
    IN  IF trimmed = <<>> THEN <<>>
        ELSE <<[text |-> trimmed, line |-> lineIndex, startChar |-> startChar, endChar |-> endChar]>>

\* One segment of extractPathCandidates: no candidate (an empty sequence) or one.
SegmentCandidate(seg, valueStartIndex, lineIndex) ==
    LET segmentText == seg.text
        layerIndex == JsIndexOf(segmentText, S_MacroClose)
        pathPortion == IF layerIndex >= 0 THEN JsSlice(segmentText, 0, layerIndex) ELSE segmentText
        trimmed == Trim(pathPortion)
        leadingWhitespace == Len(pathPortion) - Len(TrimStart(pathPortion))
        startChar == valueStartIndex + seg.index + leadingWhitespace
        endChar == startChar + Len(trimmed)
    IN  IF Includes(segmentText, S_MacroOpen) /\ Includes(segmentText, S_MacroClose) THEN <<>>
        ELSE IF trimmed = <<>> THEN <<>>
        ELSE <<[text |-> trimmed, line |-> lineIndex, startChar |-> startChar, endChar |-> endChar]>>

RECURSIVE CandidatesOf(_, _, _)
CandidatesOf(segs, valueStartIndex, lineIndex) ==
    IF segs = <<>> THEN <<>>
    ELSE SegmentCandidate(Head(segs), valueStartIndex, lineIndex)
             \o CandidatesOf(Tail(segs), valueStartIndex, lineIndex)

extractPathCandidates(valueText, valueStartIndex, lineIndex) ==
    CandidatesOf(PipeSegments(valueText, 0), valueStartIndex, lineIndex)

resolvePath(baseDir, rawPath) ==
    LET normalized == ReplaceChar(rawPath, "\\", "/")
    IN  IF IsAbsolute(normalized) \/ Win32IsAbsolute(normalized) THEN normalized
        ELSE Resolve(baseDir, normalized)

containsUnresolvedToken(value) ==
    Includes(value, S_MacroOpen) \/ Includes(value, S_MacroClose)

(***************************************************************************)
(* versioning.ts: the version matcher.                                     *)
(***************************************************************************)
\* A variant of TokenAt: the letter of the token is matched in lower case only.
C23_TokenAtLowerCase(value, i) ==
    /\ i + 4 <= Len(value)
    /\ value[i + 1] = "~"
    /\ value[i + 2] \in {"s", "e"}
    /\ value[i + 3] \in (Digits \ {"0"})
    /\ value[i + 4] = "~"

\* Whether SCENARIO_EVENT_TOKEN_REGEX, /~[se][1-9]~/gi, matches at 0-based index i.
TokenAt(value, i) ==
    /\ i + 4 <= Len(value)
    /\ value[i + 1] = "~"
    /\ LowerChar(value[i + 2]) \in {"s", "e"}
    /\ value[i + 3] \in (Digits \ {"0"})
    /\ value[i + 4] = "~"

\* value.replace(SCENARIO_EVENT_TOKEN_REGEX, ''): the matches are found from left
\* to right in the original text and do not overlap; the result is not rescanned.
RECURSIVE StripFrom(_, _)
StripFrom(value, i) ==
    IF i >= Len(value) THEN <<>>
    ELSE IF TokenAt(value, i) THEN StripFrom(value, i + 4)
    ELSE <<value[i + 1]>> \o StripFrom(value, i + 1)

stripScenarioEventTokens(value) == StripFrom(value, 0)

\* The end (0-based, exclusive) of the digit run that starts at index start.
RECURSIVE DigitRunEnd(_, _)
DigitRunEnd(baseName, start) ==
    IF start < Len(baseName) /\ IsDigit(baseName[start + 1])
    THEN DigitRunEnd(baseName, start + 1)
    ELSE start

\* getVersionMatches from index `from` on: the matches of /\d+/g that are not
\* immediately followed by a letter.
RECURSIVE VersionMatchesFrom(_, _)
VersionMatchesFrom(baseName, from) ==
    IF from >= Len(baseName) THEN <<>>
    ELSE IF ~IsDigit(baseName[from + 1]) THEN VersionMatchesFrom(baseName, from + 1)
    ELSE LET start == from
             end == DigitRunEnd(baseName, from)
             nextIsLetter == end < Len(baseName) /\ IsLetter(baseName[end + 1])
             raw == JsSlice(baseName, start, end)
         IN  (IF nextIsLetter THEN <<>>
              ELSE <<[raw |-> raw, value |-> ParseInt(raw), start |-> start, end |-> end]>>)
                 \o VersionMatchesFrom(baseName, end)

getVersionMatches(baseName) == VersionMatchesFrom(baseName, 0)

buildVersionPattern(baseName, match) ==
    JsSlice(baseName, 0, match.start) \o S_Hash \o JsSliceFrom(baseName, match.end)

\* The cleaned base name of getLatestVersionStatus: path.basename(filePath, ext)
\* with ext the LOWER-CASED extension, tokens stripped, lower-cased.
CleanedOfBase(b) ==
    ToLower(stripScenarioEventTokens(StripExt(b, ToLower(ExtnameOfBase(b)))))

CleanedBaseName(filePath) == CleanedOfBase(Basename(filePath))

\* What getLatestVersionStatus derives from one path, its own or an entry's: the
\* lower-cased extension, the number of version matches of the cleaned base
\* name and, when there is exactly one, its value and the pattern.
SeriesOfMatches(ext, cleanedBaseName, matches) ==
    [ext |-> ext,
     count |-> Len(matches),
     version |-> IF Len(matches) = 1 THEN matches[1].value ELSE 0,
     pattern |-> IF Len(matches) = 1 THEN buildVersionPattern(cleanedBaseName, matches[1]) ELSE <<>>]

SeriesOfCleaned(ext, cleanedBaseName) ==
    SeriesOfMatches(ext, cleanedBaseName, getVersionMatches(cleanedBaseName))

SeriesOfBase(b) == SeriesOfCleaned(ToLower(ExtnameOfBase(b)), CleanedOfBase(b))

VersionSeries(filePath) == SeriesOfBase(Basename(filePath))

\* The loop of getLatestVersionStatus over the entries: the largest version among
\* the current one and the entries of the same extension, with exactly one match
\* and the same pattern.
SeriesVersions(current, entries) ==
    {entry.version : entry \in
        {e \in {VersionSeries(entryPath) : entryPath \in entries} :
            e.ext = current.ext /\ e.count = 1 /\ e.pattern = current.pattern}}

\* A variant of SetMax: the least element.
C22_SetMin(S) == CHOOSE x \in S : \A y \in S : x <= y

SetMax(S) == CHOOSE x \in S : \A y \in S : y <= x

\* getLatestVersionStatus(filePath, candidateFiles) once the entries are known;
\* listed = FALSE is the readdirSync failure of the fallback.
StatusOfVersions(currentVersion, latestVersion) ==
    [status |-> IF currentVersion = latestVersion THEN "latest" ELSE "not-latest",
     currentVersion |-> currentVersion, latestVersion |-> latestVersion]

StatusOfSeries(current, entries, listed) ==
    IF current.count = 0 THEN [status |-> "no-version", currentVersion |-> 0, latestVersion |-> 0]
    ELSE IF current.count > 1 THEN [status |-> "ambiguous", currentVersion |-> 0, latestVersion |-> 0]
    ELSE IF ~listed THEN StatusOfVersions(current.version, current.version)
    ELSE StatusOfVersions(current.version,
                          SetMax({current.version} \cup SeriesVersions(current, entries)))

LatestStatusAmong(filePath, entries, listed) ==
    StatusOfSeries(VersionSeries(filePath), entries, listed)

(***************************************************************************)
(* Regular expressions of diagnostics.ts, matched from the start of the    *)
(* line.  A position is the number of characters consumed so far, -1 once  *)
(* the match has failed.                                                   *)
(***************************************************************************)
\* \s*
RxSpaces0(s, p) == IF p < 0 THEN -1 ELSE p + LeadingSpaces(JsSliceFrom(s, p))

\* \s+
RxSpaces1(s, p) == IF p < 0 \/ RxSpaces0(s, p) = p THEN -1 ELSE RxSpaces0(s, p)

\* A literal under the i flag (lit is given in lower case).
RxLit(s, p, lit) == IF p >= 0 /\ OccursAt(ToLower(s), lit, p) THEN p + Len(lit) ELSE -1

\* \b: exactly one of the characters before and after the position is a word character.
RxBoundary(s, p) ==
    IF p < 0 THEN -1
    ELSE IF (p > 0 /\ IsWordChar(s[p])) # (p < Len(s) /\ IsWordChar(s[p + 1])) THEN p ELSE -1

\* (event|scenario)
RxEventOrScenario(s, p) ==
    IF RxLit(s, p, S_event) >= 0 THEN RxLit(s, p, S_event) ELSE RxLit(s, p, S_scenario)

\* /^\s*if\b\s+(event|scenario)\s*==/i
IF_STATEMENT_REGEX(s) ==
    RxLit(s, RxSpaces0(s, RxEventOrScenario(s,
        RxSpaces1(s, RxBoundary(s, RxLit(s, RxSpaces0(s, 0), S_if))))), S_EqEq) >= 0

\* /^\s*else\b\s+if\b\s+(event|scenario)\s*==/i
ELSE_IF_REGEX(s) ==
    RxLit(s, RxSpaces0(s, RxEventOrScenario(s,
        RxSpaces1(s, RxBoundary(s, RxLit(s,
            RxSpaces1(s, RxBoundary(s, RxLit(s, RxSpaces0(s, 0), S_else))), S_if))))), S_EqEq) >= 0

\* /^\s*end\b\s*if\b/i
END_IF_REGEX(s) ==
    RxBoundary(s, RxLit(s, RxSpaces0(s, RxBoundary(s, RxLit(s, RxSpaces0(s, 0), S_end))), S_if)) >= 0

\* /^\s*define\b\s+event\b/i
DEFINE_EVENT_REGEX(s) ==
    RxBoundary(s, RxLit(s, RxSpaces1(s, RxBoundary(s, RxLit(s, RxSpaces0(s, 0), S_define))), S_event)) >= 0

\* /^\s*end\b\s+define\b/i
END_DEFINE_REGEX(s) ==
    RxBoundary(s, RxLit(s, RxSpaces1(s, RxBoundary(s, RxLit(s, RxSpaces0(s, 0), S_end))), S_define)) >= 0

\* /^\s*<first>\b\s+<dim>\b\s+domain\b/i for first in {start, end}, dim in {1d, 2d}
DomainRegex(s, first, dim) ==
    RxBoundary(s, RxLit(s, RxSpaces1(s, RxBoundary(s, RxLit(s,
        RxSpaces1(s, RxBoundary(s, RxLit(s, RxSpaces0(s, 0), first))), dim))), S_domain)) >= 0

START_1D_DOMAIN_REGEX(s) == DomainRegex(s, S_start, S_1d)

END_1D_DOMAIN_REGEX(s) == DomainRegex(s, S_end, S_1d)

START_2D_DOMAIN_REGEX(s) == DomainRegex(s, S_start, S_2d)

END_2D_DOMAIN_REGEX(s) == DomainRegex(s, S_end, S_2d)

(***************************************************************************)
(* diagnostics.ts: the block stack.                                        *)
(***************************************************************************)
BlockEntry(kind, lineIndex, startChar, width, closer) ==
    [kind |-> kind, line |-> lineIndex, startChar |-> startChar,
     endChar |-> startChar + width, closer |-> closer]

\* A variant of popBlock: the nearest entry of the kind is removed with all that
\* was opened after it.
C25_popBlockToNearest(stack, kind) ==
    IF \E k \in DOMAIN stack : stack[k].kind = kind
    THEN SubSeq(stack, 1, (CHOOSE k \in DOMAIN stack :
                              /\ stack[k].kind = kind
                              /\ \A j \in DOMAIN stack : stack[j].kind = kind => j <= k) - 1)
    ELSE stack

popBlock(stack, kind) ==
    IF stack = <<>> THEN stack
    ELSE IF stack[Len(stack)].kind = kind THEN SubSeq(stack, 1, Len(stack) - 1)
    ELSE stack

updateBlockStack(line, lineIndex, stack) ==
    LET commentIndex == JsIndexOf(line, S_Bang)
        lineContent == IF commentIndex >= 0 THEN JsSlice(line, 0, commentIndex) ELSE line
        startChar == LeadingSpaces(lineContent)
    IN  IF Trim(lineContent) = <<>> THEN stack
        ELSE IF END_IF_REGEX(lineContent) THEN popBlock(stack, "if")
        ELSE IF END_DEFINE_REGEX(lineContent) THEN popBlock(stack, "define-event")
        ELSE IF END_1D_DOMAIN_REGEX(lineContent) THEN popBlock(stack, "start-1d-domain")
        ELSE IF END_2D_DOMAIN_REGEX(lineContent) THEN popBlock(stack, "start-2d-domain")
        ELSE IF ELSE_IF_REGEX(lineContent) THEN stack
        ELSE IF IF_STATEMENT_REGEX(lineContent)
             THEN Append(stack, BlockEntry("if", lineIndex, startChar, 2, S_End_If))
        ELSE IF DEFINE_EVENT_REGEX(lineContent)
             THEN Append(stack, BlockEntry("define-event", lineIndex, startChar, 6, S_End_Define))
        ELSE IF START_1D_DOMAIN_REGEX(lineContent)
             THEN Append(stack, BlockEntry("start-1d-domain", lineIndex, startChar, 5, S_End_1D_Domain))
        ELSE IF START_2D_DOMAIN_REGEX(lineContent)
             THEN Append(stack, BlockEntry("start-2d-domain", lineIndex, startChar, 5, S_End_2D_Domain))
        ELSE stack

\* A variant of BlockDiagnostics: only the outermost open block is reported.
C9_BlockDiagnosticsOutermostOnly(stack) ==
    IF stack = <<>> THEN <<>>
    ELSE <<Diagnostic(stack[1].line, stack[1].startChar, stack[1].endChar,
                      "Block", "Error", stack[1].closer, 0, 0)>>

\* The diagnostics of the entries left on the stack at the end of the file.
RECURSIVE BlockDiagnostics(_)
BlockDiagnostics(stack) ==
    IF stack = <<>> THEN <<>>
    ELSE <<Diagnostic(stack[1].line, stack[1].startChar, stack[1].endChar,
                      "Block", "Error", stack[1].closer, 0, 0)>>
             \o BlockDiagnostics(Tail(stack))

(***************************************************************************)
(* State.                                                                  *)
(*   cfg       the tuflowValidator configuration (config.ts)               *)
(*   disk      the file system: regular files, directories, the files that *)
(*             cannot be read and the directories that cannot be listed    *)
(*   contents  the text of every control file, split at its line breaks    *)
(*             (the root document's buffer is its saved text)              *)
(*   doc       the file name of the root document                          *)
(*   pc        "idle" before analyzeRootDocument, "run" while analyzeFile  *)
(*             calls are on the stack, "done" once the root call returned  *)
(*   stack     the analyzeFile activations, innermost last; each holds the *)
(*             locals of the call and its position                         *)
(*   visited   the map of analyzeRootDocument: normalized path to the      *)
(*             diagnostics array registered for it.  The array a call      *)
(*             fills is the one registered under its path until the call   *)
(*             returns, so the array is held in the map itself             *)
(*   ctx       the LatestCheckContext of the pass                          *)
(*   scans     how many times each path was read by safeReadFile and how   *)
(*             many times its lines were scanned, in this pass             *)
(*   fixedLine the line the `Ignore this line' quick fix was applied to in *)
(*             the root document, -1 before                                *)
(*   call      the call of a pure function under study: its name, its      *)
(*             arguments and, once it returned, its result                 *)
(*   settings  tuflowValidator.diagnosticLevel and .analyzeAllControlFiles *)
(*   textDocuments   vscode.workspace.textDocuments, as the set of uris    *)
(*   buffers   document.getText() of every document, as lines              *)
(*   rootDiagnosticsByRoot  the Map of diagnostics.ts in insertion order:  *)
(*             a sequence of [root, files], files a map from path to list  *)
(*   mergedFiles     the Set of diagnostics.ts                             *)
(*   collection      the DiagnosticCollection: a map from path to list     *)
(*   isRefreshing    the flag of diagnostics.ts                            *)
(*   refreshes the activations of refreshDiagnostics suspended at an await *)
(*   closed    the roots onDidCloseTextDocument was delivered for and that *)
(*             were not opened or edited since                             *)
(***************************************************************************)
(* diagnostics.ts: the severity filter.                                    *)
(***************************************************************************)
\* A variant of severityRank: hint has the rank of information.
C10_severityRankHintAsInfo(level) ==
    CASE level = "error" -> 0
      [] level = "warning" -> 1
      [] level \in {"info", "information", "hint"} -> 2
      [] OTHER -> -1

\* severityRank; -1 is null.
severityRank(level) ==
    CASE level = "error" -> 0
      [] level = "warning" -> 1
      [] level \in {"info", "information"} -> 2
      [] level = "hint" -> 3
      [] OTHER -> -1

severityRankValue(severity) ==
    CASE severity = "Error" -> 0
      [] severity = "Warning" -> 1
      [] severity = "Information" -> 2
      [] severity = "Hint" -> 3
      [] OTHER -> 2

FilterByThreshold(diagnostics, threshold) ==
    IF threshold = -1 THEN diagnostics
    ELSE SelectSeq(diagnostics, LAMBDA diagnostic : severityRankValue(diagnostic.severity) <= threshold)

filterDiagnosticsByLevel(diagnostics, level) ==
    IF level = "none" THEN <<>> ELSE FilterByThreshold(diagnostics, severityRank(level))

(***************************************************************************)
VARIABLES cfg, disk, contents, doc, pc, stack, visited, ctx, scans, fixedLine, call,
          settings, textDocuments, buffers, rootDiagnosticsByRoot, mergedFiles, collection,
          isRefreshing, refreshes, closed

\* The extension host: the open documents, the settings, the module state of
\* diagnostics.ts, the display collection and the suspended refreshes.
extension ==
    <<settings, textDocuments, buffers, rootDiagnosticsByRoot, mergedFiles, collection,
      isRefreshing, refreshes, closed>>

vars ==
    <<cfg, disk, contents, doc, pc, stack, visited, ctx, scans, fixedLine, call, extension>>

\* What an analysis pass reads and never writes.
world == <<cfg, disk, contents, doc>>

(***************************************************************************)
(* The file system (fs) and io.ts.                                         *)
(***************************************************************************)
\* fs.existsSync
existsSync(p) == Normalize(p) \in disk.files \cup disk.dirs

\* Whether fs.readdirSync(dir) succeeds.
CanList(dir) == Normalize(dir) \in disk.dirs \ disk.unlistable

\* fs.readdirSync(dir, {withFileTypes: true}).filter(isFile), joined to dir.
ReaddirFiles(dir) == {f \in disk.files : Dirname(f) = Normalize(dir)}

\* safeReadFile: null (ok = FALSE) when readFileSync throws.
safeReadFile(filePath) ==
    IF Normalize(filePath) \in (disk.files \ disk.unreadable) \cap DOMAIN contents
    THEN [ok |-> TRUE, lines |-> contents[Normalize(filePath)]]
    ELSE [ok |-> FALSE, lines |-> <<>>]

(***************************************************************************)
(* versioning.ts: the latest-scope builder and the two version checks.     *)
(***************************************************************************)
\* An optional candidate list: given = FALSE is `undefined`.
NoCandidates == [given |-> FALSE, files |-> {}]

StatusInFolder(filePath, dir, candidateFiles) ==
    LatestStatusAmong(filePath,
                      IF candidateFiles.given THEN candidateFiles.files ELSE ReaddirFiles(dir),
                      candidateFiles.given \/ CanList(dir))

getLatestVersionStatus(filePath, candidateFiles) ==
    StatusInFolder(filePath, Dirname(filePath), candidateFiles)

shouldSkipFolderScan(folderName) ==
    ToLower(folderName) \in
        { <<".", "g", "i", "t">>,
          <<"n", "o", "d", "e", "_", "m", "o", "d", "u", "l", "e", "s">>,
          <<".", "v", "s", "c", "o", "d", "e">>,
          <<".", "v", "s", "c", "o", "d", "e", "-", "t", "e", "s", "t">>,
          <<"o", "u", "t">>,
          <<"d", "i", "s", "t">> }

\* Whether the recursive scan that starts in rootDir reaches the directory dir:
\* every directory from rootDir down to dir can be listed, and none below rootDir
\* has a skipped name.
ReachesSegments(r, d) ==
    /\ Len(d) >= Len(r)
    /\ SubSeq(d, 1, Len(r)) = r
    /\ \A k \in Len(r)..Len(d) : CanList(<<SLASH>> \o JoinWith(SubSeq(d, 1, k), SLASH))
    /\ \A k \in (Len(r) + 1)..Len(d) : ~shouldSkipFolderScan(d[k])

ScanReaches(rootDir, dir) == ReachesSegments(Segments(Normalize(rootDir)), Segments(dir))

\* collectTcfFilesRecursively over every scan root: the .tcf files found.
ScannedTcfFiles(scanRoots) ==
    {f \in disk.files :
        /\ ToLower(Extname(f)) = EXT_tcf
        /\ \E r \in scanRoots : ScanReaches(r, Dirname(f))}

\* tcfFilesByFolder as a map from folder to the set of its .tcf files.
GroupByFolder(files) ==
    [folder \in {Dirname(f) : f \in files} |-> {f \in files : Dirname(f) = folder}]

TcfFilesByFolder(scanRoots) == GroupByFolder(ScannedTcfFiles(scanRoots))

collectLatestTcfFiles(tcfFilesByFolder) ==
    {Normalize(file) : file \in
        {f \in UNION {tcfFilesByFolder[folder] : folder \in DOMAIN tcfFilesByFolder} :
            getLatestVersionStatus(f, [given |-> TRUE, files |-> tcfFilesByFolder[Dirname(f)]]).status
                \in {"latest", "no-version"}}}

\* The value text of a line: what follows the first "==", up to the first "!".
ValueWithComment(text) == JsSliceFrom(text, JsIndexOf(text, S_EqEq) + 2)

ValueText(text) ==
    LET valueWithComment == ValueWithComment(text)
        commentIndex == JsIndexOf(valueWithComment, S_Bang)
    IN  IF commentIndex >= 0 THEN JsSlice(valueWithComment, 0, commentIndex) ELSE valueWithComment

\* collectReferencedControlFiles, one line.
IsReferencedControl(text, resolvedPath) ==
    /\ isLikelyFile(text)
    /\ ~containsUnresolvedToken(text)
    /\ ToLower(Extname(resolvedPath)) \in LATEST_CHECK_CONTROL_EXTENSIONS \ {EXT_tcf}
    /\ existsSync(resolvedPath)

ReferencedAmong(docDir, candidates) ==
    {Normalize(resolvePath(docDir, candidates[k].text)) : k \in
        {j \in DOMAIN candidates :
            IsReferencedControl(candidates[j].text, resolvePath(docDir, candidates[j].text))}}

ReferencedControlsOfLine(docDir, text, lineIndex) ==
    IF StartsWith(Trim(text), S_Bang) \/ Trim(text) = <<>> THEN {}
    ELSE IF JsIndexOf(text, S_EqEq) = -1 THEN {}
    ELSE ReferencedAmong(docDir,
             extractPathCandidates(ValueText(text), JsIndexOf(text, S_EqEq) + 2, lineIndex))

collectReferencedControlFiles(tcfPath, lines) ==
    UNION {ReferencedControlsOfLine(Dirname(tcfPath), lines[i], i - 1) : i \in DOMAIN lines}

collectReferencedControlFilesFromTcfs(tcfFiles) ==
    UNION {collectReferencedControlFiles(tcfFile, safeReadFile(tcfFile).lines) :
              tcfFile \in {f \in tcfFiles : safeReadFile(f).ok}}

\* vscode.workspace.workspaceFolders
workspaceFolders == disk.workspaceFolders

ContextOf(tcfFilesByFolder) ==
    [tcfFilesByFolder |-> tcfFilesByFolder,
     latestTcfReferencedControls |->
         collectReferencedControlFilesFromTcfs(collectLatestTcfFiles(tcfFilesByFolder))]

buildLatestCheckContext(documentFileName) ==
    IF ~cfg.enableLatestVersionChecks
    THEN [tcfFilesByFolder |-> <<>>, latestTcfReferencedControls |-> {}]
    ELSE ContextOf(TcfFilesByFolder(IF workspaceFolders # {} THEN workspaceFolders
                                    ELSE {Dirname(documentFileName)}))

FilterByExtAndDir(ext, dir, referencedControls) ==
    {referencedPath \in referencedControls :
        /\ ToLower(Extname(referencedPath)) = ext
        /\ Dirname(referencedPath) = dir}

filterReferencedControlCandidates(filePath, referencedControls) ==
    FilterByExtAndDir(ToLower(Extname(filePath)), Dirname(filePath), referencedControls)

CandidateFilesOf(ext, dir, latestCheckContext) ==
    IF ext = EXT_tcf
    THEN (IF dir \in DOMAIN latestCheckContext.tcfFilesByFolder
          THEN [given |-> TRUE, files |-> latestCheckContext.tcfFilesByFolder[dir]]
          ELSE NoCandidates)
    ELSE IF ext \notin LATEST_CHECK_CONTROL_EXTENSIONS THEN NoCandidates
    ELSE IF latestCheckContext.latestTcfReferencedControls = {} THEN NoCandidates
    ELSE [given |-> TRUE,
          files |-> FilterByExtAndDir(ext, dir, latestCheckContext.latestTcfReferencedControls)]

getCandidateFilesForLatestStatus(filePath, latestCheckContext) ==
    CandidateFilesOf(ToLower(Extname(filePath)), Dirname(filePath), latestCheckContext)

\* A variant of LatestCheckDecision: the membership test is left out.
C24_DecisionWithoutScope(ext, normalizedPath, status, baseName, latestCheckContext) ==
    IF ~cfg.enableLatestVersionChecks THEN [check |-> FALSE, pushed |-> <<>>]
    ELSE IF ext \notin LATEST_CHECK_CONTROL_EXTENSIONS THEN [check |-> FALSE, pushed |-> <<>>]
    ELSE IF status.status = "ambiguous"
         THEN [check |-> FALSE,
               pushed |-> <<Diagnostic(0, 0, 0, "Ambiguous", "Warning", baseName, 0, 0)>>]
    ELSE [check |-> status.status = "latest" \/ (ext = EXT_tcf /\ status.status = "no-version"),
          pushed |-> <<>>]

\* shouldCheckLatestReferencedVersions: its result, and what it pushes onto the
\* diagnostics of the file.
LatestCheckDecision(ext, normalizedPath, status, baseName, latestCheckContext) ==
    IF ~cfg.enableLatestVersionChecks THEN [check |-> FALSE, pushed |-> <<>>]
    ELSE IF ext \notin LATEST_CHECK_CONTROL_EXTENSIONS THEN [check |-> FALSE, pushed |-> <<>>]
    ELSE IF /\ ext # EXT_tcf
            /\ latestCheckContext.latestTcfReferencedControls # {}
            /\ normalizedPath \notin latestCheckContext.latestTcfReferencedControls
         THEN [check |-> FALSE, pushed |-> <<>>]
    ELSE IF status.status = "ambiguous"
         THEN [check |-> FALSE,
               pushed |-> <<Diagnostic(0, 0, 0, "Ambiguous", "Warning", baseName, 0, 0)>>]
    ELSE [check |-> status.status = "latest" \/ (ext = EXT_tcf /\ status.status = "no-version"),
          pushed |-> <<>>]

shouldCheckLatestReferencedVersions(filePath, latestCheckContext) ==
    LatestCheckDecision(ToLower(Extname(filePath)), Normalize(filePath),
                        getLatestVersionStatus(filePath,
                            getCandidateFilesForLatestStatus(filePath, latestCheckContext)),
                        Basename(filePath), latestCheckContext)

\* A variant of VersionDiagnostics: found and latest change places.
C7_VersionDiagnosticsSwapped(status, baseName, range) ==
    IF ~cfg.enableLatestVersionChecks THEN <<>>
    ELSE IF status.status = "ambiguous"
         THEN <<Diagnostic(range.line, range.startChar, range.endChar,
                           "Ambiguous", "Warning", baseName, 0, 0)>>
    ELSE IF status.status = "not-latest"
         THEN <<Diagnostic(range.line, range.startChar, range.endChar,
                           "NotLatest", "Warning", baseName,
                           status.latestVersion, status.currentVersion)>>
    ELSE <<>>

\* checkReferencedFileLatestVersion: what it pushes.
VersionDiagnostics(status, baseName, range) ==
    IF ~cfg.enableLatestVersionChecks THEN <<>>
    ELSE IF status.status = "ambiguous"
         THEN <<Diagnostic(range.line, range.startChar, range.endChar,
                           "Ambiguous", "Warning", baseName, 0, 0)>>
    ELSE IF status.status = "not-latest"
         THEN <<Diagnostic(range.line, range.startChar, range.endChar,
                           "NotLatest", "Warning", baseName,
                           status.currentVersion, status.latestVersion)>>
    ELSE <<>>

checkReferencedFileLatestVersion(filePath, range) ==
    VersionDiagnostics(getLatestVersionStatus(filePath, NoCandidates), Basename(filePath), range)

\* valueText.trim().split(/\s+/)[0]: the first word of the value.
FirstWord(valueText) ==
    LET t == Trim(valueText)
    IN  IF \E k \in DOMAIN t : IsSpace(t[k])
        THEN JsSlice(t, 0, (CHOOSE k \in DOMAIN t :
                               IsSpace(t[k]) /\ \A j \in 1..(k - 1) : ~IsSpace(t[j])) - 1)
        ELSE t

\* checkVersionTokenInFilename: what it pushes.
checkVersionTokenInFilename(keyText, valueText, valueStartIndex, lineIndex, filePath) ==
    LET versionValue == FirstWord(valueText)
        found == Includes(Basename(filePath), versionValue)
        valueIndex == JsIndexOf(valueText, versionValue)
        startChar == valueStartIndex + (IF valueIndex >= 0 THEN valueIndex ELSE 0)
    IN  IF normalizeKey(keyText) # S_SET_VARIABLE_VERSION THEN <<>>
        ELSE IF versionValue = <<>> THEN <<>>
        ELSE <<Diagnostic(lineIndex, startChar, startChar + Len(versionValue), "VersionToken",
                          IF found THEN "Information" ELSE "Warning",
                          versionValue, IF found THEN 1 ELSE 0, 0)>>

\* The end (0-based, exclusive) of the match of /<<([^>]+)>>/ that starts at index
\* i, or -1 when there is none.
MacroMatchEnd(valueText, i) ==
    LET rest == JsSliceFrom(valueText, i + 2)
        close == JsIndexOf(rest, <<">">>)
    IN  IF OccursAt(valueText, S_MacroOpen, i) /\ close >= 1 /\ OccursAt(rest, S_MacroClose, close)
        THEN i + 2 + close + 2
        ELSE -1

\* The loop of checkScenarioEventTokensInValue from index i on, with the tokens seen.
RECURSIVE TokenDiagnosticsFrom(_, _, _, _, _, _)
TokenDiagnosticsFrom(valueText, i, seenTokens, valueStartIndex, lineIndex, baseName) ==
    IF i >= Len(valueText) THEN <<>>
    ELSE IF MacroMatchEnd(valueText, i) < 0
         THEN TokenDiagnosticsFrom(valueText, i + 1, seenTokens, valueStartIndex, lineIndex, baseName)
    ELSE LET end == MacroMatchEnd(valueText, i)
             token == Trim(JsSlice(valueText, i + 2, end - 2))
             normalizedToken == ToLower(token)
             isToken == Len(token) = 4 /\ TokenAt(token, 0)
             fresh == isToken /\ normalizedToken \notin seenTokens
         IN  (IF fresh /\ ~Includes(baseName, normalizedToken)
              THEN <<Diagnostic(lineIndex, valueStartIndex + i, valueStartIndex + end,
                                "MissingToken", "Warning", token, 0, 0)>>
              ELSE <<>>)
                 \o TokenDiagnosticsFrom(valueText, end,
                        IF fresh THEN seenTokens \cup {normalizedToken} ELSE seenTokens,
                        valueStartIndex, lineIndex, baseName)

\* checkScenarioEventTokensInValue: what it pushes.
checkScenarioEventTokensInValue(valueText, valueStartIndex, lineIndex, filePath) ==
    TokenDiagnosticsFrom(valueText, 0, {}, valueStartIndex, lineIndex, ToLower(Basename(filePath)))

(***************************************************************************)
(* diagnostics.ts: analyzeRootDocument and analyzeFile.                    *)
(*                                                                         *)
(* One activation of analyzeFile is a frame:                               *)
(*   filePath    normalizedPath                                            *)
(*   lines       contents.split(/\r?\n/)                                   *)
(*   i           the 0-based index of the line the for loop is at          *)
(*   candidates  the candidates of line i while its inner loop runs        *)
(*   c           the 1-based index of the candidate the inner loop is at,  *)
(*               0 while the call is between lines                         *)
(*   blockStack  the block stack                                           *)
(*   shouldCheckLatestReferencedFiles                                      *)
(***************************************************************************)
Top == stack[Len(stack)]

\* diagnostics.push(...) on the array registered for filePath.
Push(vis, filePath, pushed) == [vis EXCEPT ![filePath] = @ \o pushed]

\* A whole-line comment whose content starts with tpf-ignore-file.
IsIgnoreFileLine(text) ==
    /\ StartsWith(Trim(text), S_Bang)
    /\ StartsWith(Trim(JsSliceFrom(Trim(text), 1)), S_tpf_ignore_file)

\* The inline comment of the value starts with tpf-ignore.
IsIgnoredLine(text) ==
    LET valueWithComment == ValueWithComment(text)
        commentIndex == JsIndexOf(valueWithComment, S_Bang)
    IN  /\ commentIndex >= 0
        /\ StartsWith(Trim(JsSliceFrom(valueWithComment, commentIndex + 1)), S_tpf_ignore)

\* The body of the for loop of analyzeFile for line i, up to the inner loop over
\* the candidates (a line with the file-level directive is IgnoreFile's):
\* the new block stack, the diagnostics pushed and the candidates to visit.
CommandLine(frame, blockStack, keyText, valueText, valueStartIndex) ==
    [blockStack |-> blockStack,
     pushed |-> IF ToLower(Extname(frame.filePath)) = EXT_tcf
                THEN checkVersionTokenInFilename(keyText, valueText, valueStartIndex, frame.i,
                                                 frame.filePath)
                         \o checkScenarioEventTokensInValue(valueText, valueStartIndex, frame.i,
                                                            frame.filePath)
                ELSE <<>>,
     candidates |-> IF shouldSkipKeyForFileLookup(keyText) THEN <<>>
                    ELSE extractPathCandidates(valueText, valueStartIndex, frame.i)]

ScannedLine(frame, text, blockStack, separatorIndex) ==
    IF separatorIndex = -1 \/ IsIgnoredLine(text)
    THEN [blockStack |-> blockStack, pushed |-> <<>>, candidates |-> <<>>]
    ELSE CommandLine(frame, blockStack, Trim(JsSlice(text, 0, separatorIndex)), ValueText(text),
                     separatorIndex + 2)

LineOutcome(frame, text) ==
    IF StartsWith(Trim(text), S_Bang) \/ Trim(text) = <<>>
    THEN [blockStack |-> frame.blockStack, pushed |-> <<>>, candidates |-> <<>>]
    ELSE ScannedLine(frame, text,
                     IF cfg.enableIfStatementChecks
                     THEN updateBlockStack(text, frame.i, frame.blockStack)
                     ELSE frame.blockStack,
                     JsIndexOf(text, S_EqEq))

\* A variant of Advance: the inner loop is left after the first candidate.
C5_AdvanceToNextLine(frame) ==
    [frame EXCEPT !.c = 0, !.candidates = <<>>, !.i = @ + 1]

\* The inner loop moves to the next candidate, or the outer loop to the next line.
Advance(frame) ==
    IF frame.c >= 1 /\ frame.c < Len(frame.candidates)
    THEN [frame EXCEPT !.c = @ + 1]
    ELSE [frame EXCEPT !.c = 0, !.candidates = <<>>, !.i = @ + 1]

\* The prologue of analyzeFile for a path that is not in visited: the array is
\* registered, and shouldCheckLatestReferencedVersions may push onto it.
EnterWith(vis, normalizedPath, lines, decision) ==
    [visited |-> (normalizedPath :> decision.pushed) @@ vis,
     frame |-> [filePath |-> normalizedPath, lines |-> lines, i |-> 0, candidates |-> <<>>,
                c |-> 0, blockStack |-> <<>>,
                shouldCheckLatestReferencedFiles |-> decision.check]]

Enter(vis, filePath, lines, latestCheckContext) ==
    EnterWith(vis, Normalize(filePath), lines,
              shouldCheckLatestReferencedVersions(Normalize(filePath), latestCheckContext))

\* The call analyzeFile(resolvedPath, ...) of a frame returns a list of length
\* returned: the summary is pushed when it is not empty, and the loop goes on.
Summary(candidate, resolvedPath, returned) ==
    Diagnostic(candidate.line, candidate.startChar, candidate.endChar, "Summary",
               ISSUE_SUMMARY_SEVERITY, Basename(resolvedPath), returned, 0)

\* A variant of AfterChild: the summary is pushed whatever the length.
C6_AfterChildAlways(vis, frame, returned) ==
    Push(vis, frame.filePath,
         <<Summary(frame.candidates[frame.c],
                   resolvePath(Dirname(frame.filePath), frame.candidates[frame.c].text),
                   returned)>>)

AfterChild(vis, frame, returned) ==
    IF returned > 0
    THEN Push(vis, frame.filePath,
              <<Summary(frame.candidates[frame.c],
                        resolvePath(Dirname(frame.filePath), frame.candidates[frame.c].text),
                        returned)>>)
    ELSE vis

\* The innermost analyzeFile returns a list of length returned; vis is the map
\* at that moment.
Return(vis, returned) ==
    IF Len(stack) = 1
    THEN /\ stack' = <<>>
         /\ visited' = vis
         /\ pc' = "done"
    ELSE /\ stack' = SubSeq(stack, 1, Len(stack) - 2) \o <<Advance(stack[Len(stack) - 1])>>
         /\ visited' = AfterChild(vis, stack[Len(stack) - 1], returned)
         /\ pc' = "run"

\* analyzeRootDocument(document), up to the first line of the root: a new visited
\* map, the context of the pass, and the prologue of analyzeFile for the root.
AnalyzeRoot ==
    /\ pc \in {"idle", "done"}
    /\ ctx' = buildLatestCheckContext(doc)
    /\ \E entered \in {Enter(<<>>, doc, contents[doc], ctx')} :
           /\ visited' = entered.visited
           /\ stack' = <<entered.frame>>
    /\ scans' = (Normalize(doc) :> [read |-> 0, scanned |-> 1])
    /\ pc' = "run"
    /\ UNCHANGED <<world, fixedLine, call, extension>>

\* One line of the innermost call that does not hold the file-level directive.
ScanLine ==
    /\ pc = "run"
    /\ Top.c = 0
    /\ Top.i < Len(Top.lines)
    /\ ~IsIgnoreFileLine(Top.lines[Top.i + 1])
    /\ \E out \in {LineOutcome(Top, Top.lines[Top.i + 1])} :
           /\ visited' = Push(visited, Top.filePath, out.pushed)
           /\ stack' = [stack EXCEPT ![Len(stack)] =
                           IF out.candidates = <<>>
                           THEN Advance([Top EXCEPT !.blockStack = out.blockStack])
                           ELSE [Top EXCEPT !.blockStack = out.blockStack,
                                            !.candidates = out.candidates, !.c = 1]]
    /\ UNCHANGED <<world, pc, ctx, scans, fixedLine, call, extension>>

\* A variant of IgnoreFile: the directive ends the scan and the file keeps what
\* was recorded.
C2_IgnoreFileKeepsList ==
    /\ pc = "run"
    /\ Top.c = 0
    /\ Top.i < Len(Top.lines)
    /\ IsIgnoreFileLine(Top.lines[Top.i + 1])
    /\ Return(visited, Len(visited[Top.filePath]))
    /\ UNCHANGED <<world, ctx, scans, fixedLine, call, extension>>

\* The file-level directive: the array is emptied, an empty array is registered,
\* and the call returns an empty array.
IgnoreFile ==
    /\ pc = "run"
    /\ Top.c = 0
    /\ Top.i < Len(Top.lines)
    /\ IsIgnoreFileLine(Top.lines[Top.i + 1])
    /\ Return([visited EXCEPT ![Top.filePath] = <<>>], 0)
    /\ UNCHANGED <<world, ctx, scans, fixedLine, call, extension>>

\* What the inner loop does with the candidate it is at:
\*   "skip"      not a likely file, or an unresolved token
\*   "missing"   the resolved path does not exist
\*   "data"      it exists and is no control file, or cannot be read
\*   "cached"    a control file that visited already holds
\*   "recurse"   a control file that is analysed now
ResolvedCandidate(frame) ==
    resolvePath(Dirname(frame.filePath), frame.candidates[frame.c].text)

\* A variant of CandidateCaseOf without the lookup in visited: every readable
\* control file is analysed again.
C1_CandidateCaseWithoutCache(text, resolvedPath) ==
    IF ~isLikelyFile(text) \/ containsUnresolvedToken(text) THEN "skip"
    ELSE IF ~existsSync(resolvedPath) THEN "missing"
    ELSE IF ToLower(Extname(resolvedPath)) \notin CONTROL_FILE_EXTENSIONS THEN "data"
    ELSE IF ~safeReadFile(resolvedPath).ok THEN "data"
    ELSE "recurse"

\* A variant of CandidateCaseOf: a control file whose read fails is analysed as
\* an empty file.
C26_CaseWithoutRead(text, resolvedPath) ==
    IF ~isLikelyFile(text) \/ containsUnresolvedToken(text) THEN "skip"
    ELSE IF ~existsSync(resolvedPath) THEN "missing"
    ELSE IF ToLower(Extname(resolvedPath)) \notin CONTROL_FILE_EXTENSIONS THEN "data"
    ELSE IF Normalize(resolvedPath) \in DOMAIN visited THEN "cached"
    ELSE "recurse"

CandidateCaseOf(text, resolvedPath) ==
    IF ~isLikelyFile(text) \/ containsUnresolvedToken(text) THEN "skip"
    ELSE IF ~existsSync(resolvedPath) THEN "missing"
    ELSE IF ToLower(Extname(resolvedPath)) \notin CONTROL_FILE_EXTENSIONS THEN "data"
    ELSE IF ~safeReadFile(resolvedPath).ok THEN "data"
    ELSE IF Normalize(resolvedPath) \in DOMAIN visited THEN "cached"
    ELSE "recurse"

CandidateCase(frame) == CandidateCaseOf(frame.candidates[frame.c].text, ResolvedCandidate(frame))

\* What checkReferencedFileLatestVersion pushes for the candidate of the frame.
LatestPushed(frame) ==
    IF frame.shouldCheckLatestReferencedFiles
    THEN checkReferencedFileLatestVersion(ResolvedCandidate(frame), frame.candidates[frame.c])
    ELSE <<>>

\* The counts of scans with one more safeReadFile of the path (read = 1) and one
\* more scan of its lines (scanned = 1).
Counted(counts, filePath, read, scanned) ==
    LET old == IF filePath \in DOMAIN counts THEN counts[filePath]
               ELSE [read |-> 0, scanned |-> 0]
    IN  (filePath :> [read |-> old.read + read, scanned |-> old.scanned + scanned]) @@ counts

\* Whether the round of the candidate reaches safeReadFile: the path exists and
\* has the extension of a control file.
ReadsCandidate(frame) ==
    /\ CandidateCase(frame) \in {"data", "cached", "recurse"}
    /\ ToLower(Extname(ResolvedCandidate(frame))) \in CONTROL_FILE_EXTENSIONS

\* One candidate that starts no new analyzeFile activation.
FileNotFound(candidate) ==
    Diagnostic(candidate.line, candidate.startChar, candidate.endChar, "FileNotFound", "Error",
               candidate.text, 0, 0)

CheckCandidate ==
    /\ pc = "run"
    /\ Top.c >= 1
    /\ \E case \in {CandidateCase(Top)} \ {"recurse"} :
           \E checked \in {Push(visited, Top.filePath, LatestPushed(Top))} :
               visited' =
                   CASE case = "skip" -> visited
                     [] case = "missing" ->
                            Push(visited, Top.filePath, <<FileNotFound(Top.candidates[Top.c])>>)
                     [] case = "data" -> checked
                     [] case = "cached" ->
                            AfterChild(checked, Top,
                                       Len(checked[Normalize(ResolvedCandidate(Top))]))
    /\ stack' = [stack EXCEPT ![Len(stack)] = Advance(Top)]
    /\ scans' = IF ReadsCandidate(Top)
                THEN Counted(scans, Normalize(ResolvedCandidate(Top)), 1, 0)
                ELSE scans
    /\ UNCHANGED <<world, pc, ctx, fixedLine, call, extension>>

\* One candidate that is a readable control file not yet in visited: the version
\* check of the reference, then the prologue of the child's analyzeFile.
EnterChild ==
    /\ pc = "run"
    /\ Top.c >= 1
    /\ CandidateCase(Top) = "recurse"
    /\ \E resolvedPath \in {ResolvedCandidate(Top)} :
           \E entered \in {Enter(Push(visited, Top.filePath, LatestPushed(Top)), resolvedPath,
                                 safeReadFile(resolvedPath).lines, ctx)} :
               /\ visited' = entered.visited
               /\ stack' = Append(stack, entered.frame)
               /\ scans' = Counted(scans, Normalize(resolvedPath), 1, 1)
    /\ UNCHANGED <<world, pc, ctx, fixedLine, call, extension>>

\* The end of the lines: the block diagnostics, and the call returns its array.
FinishFile ==
    /\ pc = "run"
    /\ Top.c = 0
    /\ Top.i >= Len(Top.lines)
    /\ LET finished == IF cfg.enableIfStatementChecks
                       THEN Push(visited, Top.filePath, BlockDiagnostics(Top.blockStack))
                       ELSE visited
       IN  Return(finished, Len(finished[Top.filePath]))
    /\ UNCHANGED <<world, ctx, scans, fixedLine, call, extension>>

(***************************************************************************)
(* The message of a diagnostic, as the template literals of diagnostics.ts *)
(* and versioning.ts build it.                                             *)
(***************************************************************************)
M_FileNotFound == <<"F", "i", "l", "e", " ", "n", "o", "t", " ", "f", "o", "u", "n", "d", ":", " ">>

M_ReferencedFileHas ==
    <<"R", "e", "f", "e", "r", "e", "n", "c", "e", "d", " ", "f", "i", "l", "e", " ", "h", "a",
      "s", " ">>

M_issues == <<" ", "i", "s", "s", "u", "e", "(", "s", ")", ":", " ">>

M_NotLatest ==
    <<"R", "e", "f", "e", "r", "e", "n", "c", "e", "d", " ", "f", "i", "l", "e", " ", "i", "s",
      " ", "n", "o", "t", " ", "t", "h", "e", " ", "l", "a", "t", "e", "s", "t", " ", "v", "e",
      "r", "s", "i", "o", "n", " ", "i", "n", " ", "i", "t", "s", " ", "f", "o", "l", "d", "e",
      "r", ":", " ">>

M_found == <<" ", "(", "f", "o", "u", "n", "d", " ">>

M_latest == <<",", " ", "l", "a", "t", "e", "s", "t", " ">>

M_closing == <<")", ".">>

M_Unable ==
    <<"U", "n", "a", "b", "l", "e", " ", "t", "o", " ", "d", "e", "t", "e", "r", "m", "i", "n",
      "e", " ", "l", "a", "t", "e", "s", "t", " ", "v", "e", "r", "s", "i", "o", "n", " ", "f",
      "o", "r", " ", "\"">>

M_because ==
    <<"\"", " ", "b", "e", "c", "a", "u", "s", "e", " ", "m", "u", "l", "t", "i", "p", "l", "e",
      " ", "n", "u", "m", "e", "r", "i", "c", " ", "t", "o", "k", "e", "n", "s", " ", "w", "e",
      "r", "e", " ", "f", "o", "u", "n", "d", ".">>

M_VersionToken == <<"V", "e", "r", "s", "i", "o", "n", " ", "t", "o", "k", "e", "n", " ", "\"">>

M_foundInFilename ==
    <<"\"", " ", "f", "o", "u", "n", "d", " ", "i", "n", " ", "f", "i", "l", "e", "n", "a", "m",
      "e", ".">>

M_notFoundInFilename ==
    <<"\"", " ", "n", "o", "t", " ", "f", "o", "u", "n", "d", " ", "i", "n", " ", "f", "i", "l",
      "e", "n", "a", "m", "e", ".">>

M_MissingToken ==
    <<"F", "i", "l", "e", "n", "a", "m", "e", " ", "i", "s", " ", "m", "i", "s", "s", "i", "n",
      "g", " ", "t", "o", "k", "e", "n", " ", "\"">>

M_listed ==
    <<"\"", " ", "l", "i", "s", "t", "e", "d", " ", "i", "n", " ", "t", "h", "i", "s", " ", "c",
      "o", "n", "t", "r", "o", "l", " ", "f", "i", "l", "e", ".">>

M_If == <<"I", "f">>

M_Define_Event == <<"D", "e", "f", "i", "n", "e", " ", "E", "v", "e", "n", "t">>

M_Start_1D_Domain == <<"S", "t", "a", "r", "t", " ", "1", "D", " ", "D", "o", "m", "a", "i", "n">>

M_Start_2D_Domain == <<"S", "t", "a", "r", "t", " ", "2", "D", " ", "D", "o", "m", "a", "i", "n">>

M_missingClosing ==
    <<" ", "s", "t", "a", "t", "e", "m", "e", "n", "t", " ", "i", "s", " ", "m", "i", "s", "s",
      "i", "n", "g", " ", "a", " ", "c", "l", "o", "s", "i", "n", "g", " ">>

M_dot == <<".">>

Q_FileNotFound == <<"F", "i", "l", "e", " ", "n", "o", "t", " ", "f", "o", "u", "n", "d">>

Q_ReferencedFileHas ==
    <<"R", "e", "f", "e", "r", "e", "n", "c", "e", "d", " ", "f", "i", "l", "e", " ", "h", "a",
      "s">>

Q_MissingToken ==
    <<"F", "i", "l", "e", "n", "a", "m", "e", " ", "i", "s", " ", "m", "i", "s", "s", "i", "n",
      "g", " ", "t", "o", "k", "e", "n">>

Q_NotLatest ==
    <<"n", "o", "t", " ", "t", "h", "e", " ", "l", "a", "t", "e", "s", "t", " ", "v", "e", "r",
      "s", "i", "o", "n">>

Q_Unable ==
    <<"U", "n", "a", "b", "l", "e", " ", "t", "o", " ", "d", "e", "t", "e", "r", "m", "i", "n",
      "e">>

S_ignore_insert == <<" ", "t", "p", "f", "-", "i", "g", "n", "o", "r", "e">>

S_ignore_append == <<" ", "!", " ", "t", "p", "f", "-", "i", "g", "n", "o", "r", "e">>

\* The opener a block message names, from the closer it asks for.
OpenerOf(closer) ==
    CASE closer = S_End_If -> M_If
      [] closer = S_End_Define -> M_Define_Event
      [] closer = S_End_1D_Domain -> M_Start_1D_Domain
      [] OTHER -> M_Start_2D_Domain

Message(d) ==
    CASE d.kind = "FileNotFound" -> M_FileNotFound \o d.text
      [] d.kind = "Summary" -> M_ReferencedFileHas \o NatToString(d.n) \o M_issues \o d.text
      [] d.kind = "NotLatest" ->
             M_NotLatest \o d.text \o M_found \o NatToString(d.n) \o M_latest
                 \o NatToString(d.m) \o M_closing
      [] d.kind = "Ambiguous" -> M_Unable \o d.text \o M_because
      [] d.kind = "VersionToken" ->
             M_VersionToken \o d.text \o (IF d.n = 1 THEN M_foundInFilename ELSE M_notFoundInFilename)
      [] d.kind = "MissingToken" -> M_MissingToken \o d.text \o M_listed
      [] OTHER -> OpenerOf(d.text) \o M_missingClosing \o d.text \o M_dot

(***************************************************************************)
(* codeActions.ts: the `Ignore this line (TUFLOW)' quick fix.              *)
(***************************************************************************)
\* The filter of provideCodeActions: the diagnostics the provider acts on.
OffersIgnoreFix(d) ==
    \/ Includes(Message(d), Q_FileNotFound)
    \/ Includes(Message(d), Q_ReferencedFileHas)
    \/ Includes(Message(d), Q_MissingToken)
    \/ Includes(Message(d), Q_NotLatest)
    \/ Includes(Message(d), Q_Unable)

\* The edit of lineFix applied to the text of the line.
IgnoreLineEdit(text) ==
    LET commentIndex == JsIndexOf(text, S_Bang)
    IN  IF commentIndex >= 0
        THEN JsSlice(text, 0, commentIndex + 1) \o S_ignore_insert \o JsSliceFrom(text, commentIndex + 1)
        ELSE text \o S_ignore_append

\* The user takes the quick fix on a diagnostic shown in the root document (the
\* range of the request is the diagnostic's), once; the edit changes the
\* document, which is analysed again.
ApplyIgnoreLineFix ==
    /\ pc = "done"
    /\ fixedLine = -1
    /\ \E k \in DOMAIN visited[Normalize(doc)] :
           LET d == visited[Normalize(doc)][k]
           IN  /\ OffersIgnoreFix(d)
               /\ contents' = [contents EXCEPT ![doc] = [@ EXCEPT ![d.line + 1] = IgnoreLineEdit(@)]]
               /\ fixedLine' = d.line
    /\ pc' = "idle"
    /\ UNCHANGED <<cfg, disk, doc, stack, visited, ctx, scans, call, extension>>

(***************************************************************************)
(* codeActions.ts: the `Update to latest version (TUFLOW)' quick fix.      *)
(***************************************************************************)
S_latest == <<"l","a","t","e","s","t">>


\* The end (0-based, exclusive) of the white space that starts at index start.
RECURSIVE SpaceRunEnd(_, _)
SpaceRunEnd(message, start) ==
    IF start < Len(message) /\ IsSpace(message[start + 1])
    THEN SpaceRunEnd(message, start + 1)
    ELSE start

\* Whether /latest\s+(\d+)\)/i matches at 0-based index i.
LatestMatchAt(message, i) ==
    LET spaces == SpaceRunEnd(message, i + 6)
        digits == DigitRunEnd(message, spaces)
    IN  /\ ToLower(JsSlice(message, i, i + 6)) = S_latest
        /\ spaces > i + 6
        /\ digits > spaces
        /\ digits < Len(message)
        /\ message[digits + 1] = ")"

\* parseLatestVersionFromMessage: the first match from the left; ok = FALSE is null.
RECURSIVE ParseLatestFrom(_, _)
ParseLatestFrom(message, i) ==
    IF i + 6 > Len(message) THEN [ok |-> FALSE, value |-> 0]
    ELSE IF LatestMatchAt(message, i)
    THEN [ok |-> TRUE,
          value |-> ParseInt(JsSlice(message, SpaceRunEnd(message, i + 6),
                                     DigitRunEnd(message, SpaceRunEnd(message, i + 6))))]
    ELSE ParseLatestFrom(message, i + 1)

parseLatestVersionFromMessage(message) == ParseLatestFrom(message, 0)

\* findSingleNumericToken: the matches of /\d+/g that no letter follows, when
\* there is exactly one; found = FALSE is null.
findSingleNumericToken(value) ==
    LET matches == VersionMatchesFrom(value, 0)
    IN  IF Len(matches) = 1
        THEN [found |-> TRUE, raw |-> matches[1].raw, start |-> matches[1].start,
              end |-> matches[1].end]
        ELSE [found |-> FALSE, raw |-> <<>>, start |-> 0, end |-> 0]

\* A variant of PadStart: the text is cut to the width when it is longer.
C15_PadStartCut(text, width) ==
    IF Len(text) >= width THEN SubSeq(text, Len(text) - width + 1, Len(text))
    ELSE [k \in 1..(width - Len(text)) |-> "0"] \o text

\* String.prototype.padStart(width, '0')
PadStart(text, width) ==
    IF Len(text) >= width THEN text ELSE [k \in 1..(width - Len(text)) |-> "0"] \o text

\* buildLatestVersionReplacement; ok = FALSE is null.
buildLatestVersionReplacement(currentText, message) ==
    LET latestVersion == parseLatestVersionFromMessage(message)
        match == findSingleNumericToken(currentText)
    IN  IF ~latestVersion.ok \/ ~match.found THEN [ok |-> FALSE, text |-> <<>>]
        ELSE [ok |-> TRUE,
              text |-> JsSlice(currentText, 0, match.start)
                           \o PadStart(NatToString(latestVersion.value), Len(match.raw))
                           \o JsSliceFrom(currentText, match.end)]

\* The loop of provideCodeActions for one diagnostic of the request: whether
\* latestFix is pushed, and the text of its edit.
LatestFixFor(message, currentText) ==
    IF ~(\/ Includes(message, Q_FileNotFound)
         \/ Includes(message, Q_ReferencedFileHas)
         \/ Includes(message, Q_MissingToken)
         \/ Includes(message, Q_NotLatest)
         \/ Includes(message, Q_Unable))
    THEN [ok |-> FALSE, text |-> <<>>]
    ELSE IF ~Includes(message, Q_NotLatest) THEN [ok |-> FALSE, text |-> <<>>]
    ELSE buildLatestVersionReplacement(currentText, message)

(***************************************************************************)
(* formatter.ts: IfStatementFormattingProvider.  The block regular         *)
(* expressions of formatter.ts are those of diagnostics.ts.                *)
(***************************************************************************)
\* /^\s*else\b/i
ELSE_REGEX(s) == RxBoundary(s, RxLit(s, RxSpaces0(s, 0), S_else)) >= 0

\* findIndentForKind: the indent of the last entry of the kind; found = FALSE is null.
findIndentForKind(indentStack, kind) ==
    LET found == {k \in DOMAIN indentStack : indentStack[k].kind = kind}
    IN  IF found = {} THEN [found |-> FALSE, indent |-> <<>>]
        ELSE [found |-> TRUE,
              indent |-> indentStack[CHOOSE k \in found : \A j \in found : j <= k].indent]

applyIndentEdit(edits, lineNumber, currentIndent, expectedIndent) ==
    IF currentIndent = expectedIndent THEN edits
    ELSE Append(edits, [line |-> lineNumber, startChar |-> 0, endChar |-> Len(currentIndent),
                        newText |-> expectedIndent])

\* A closing line or an else branch of the loop: aligned with the last entry of
\* the kind when there is one; a closing line pops.
FormatAligned(st, i, currentIndent, kind, pops) ==
    LET target == findIndentForKind(st.indentStack, kind)
        expectedIndent == IF target.found THEN target.indent ELSE currentIndent
    IN  [edits |-> applyIndentEdit(st.edits, i, currentIndent, expectedIndent),
         indentStack |-> IF pops THEN popBlock(st.indentStack, kind) ELSE st.indentStack]

\* The tests of one round of the loop of provideDocumentFormattingEdits on the
\* text of a line.
LineTests(text) ==
    LET commentIndex == JsIndexOf(text, S_Bang)
        lineContent == IF commentIndex >= 0 THEN JsSlice(text, 0, commentIndex) ELSE text
        isElseIf == ELSE_IF_REGEX(lineContent)
    IN  [blank |-> Trim(lineContent) = <<>>,
         currentIndent |-> JsSlice(text, 0, LeadingSpaces(text)),
         isEndIf |-> END_IF_REGEX(lineContent),
         isElseIf |-> isElseIf,
         isElse |-> ~isElseIf /\ ELSE_REGEX(lineContent),
         isIfStart |-> IF_STATEMENT_REGEX(lineContent),
         isDefineEventStart |-> DEFINE_EVENT_REGEX(lineContent),
         isStart1dDomain |-> START_1D_DOMAIN_REGEX(lineContent),
         isStart2dDomain |-> START_2D_DOMAIN_REGEX(lineContent),
         isEndDefine |-> END_DEFINE_REGEX(lineContent),
         isEnd1dDomain |-> END_1D_DOMAIN_REGEX(lineContent),
         isEnd2dDomain |-> END_2D_DOMAIN_REGEX(lineContent)]

\* A variant of FormatLine: an opener is pushed with the indentation it had.
C30_FormatLinePushesCurrent(st, i, t) ==
    LET currentIndent == t.currentIndent
        inner == IF st.indentStack # <<>>
                 THEN st.indentStack[Len(st.indentStack)].indent \o <<"\t">>
                 ELSE currentIndent
    IN  IF t.blank THEN st
        ELSE IF t.isEndIf THEN FormatAligned(st, i, currentIndent, "if", TRUE)
        ELSE IF t.isEndDefine THEN FormatAligned(st, i, currentIndent, "define-event", TRUE)
        ELSE IF t.isEnd1dDomain THEN FormatAligned(st, i, currentIndent, "start-1d-domain", TRUE)
        ELSE IF t.isEnd2dDomain THEN FormatAligned(st, i, currentIndent, "start-2d-domain", TRUE)
        ELSE IF t.isElseIf \/ t.isElse THEN FormatAligned(st, i, currentIndent, "if", FALSE)
        ELSE IF t.isIfStart \/ t.isDefineEventStart \/ t.isStart1dDomain \/ t.isStart2dDomain
             THEN [edits |-> applyIndentEdit(st.edits, i, currentIndent, inner),
                   indentStack |->
                       Append(st.indentStack,
                              [kind |-> IF t.isIfStart THEN "if"
                                        ELSE IF t.isDefineEventStart THEN "define-event"
                                        ELSE IF t.isStart1dDomain THEN "start-1d-domain"
                                        ELSE "start-2d-domain",
                               indent |-> currentIndent])]
        ELSE IF st.indentStack # <<>>
             THEN [st EXCEPT !.edits = applyIndentEdit(st.edits, i, currentIndent, inner)]
        ELSE st

\* One round of the loop, on line i (0-based) with the tests t of its text.
FormatLine(st, i, t) ==
    LET currentIndent == t.currentIndent
        inner == IF st.indentStack # <<>>
                 THEN st.indentStack[Len(st.indentStack)].indent \o <<"\t">>
                 ELSE currentIndent
    IN  IF t.blank THEN st
        ELSE IF t.isEndIf THEN FormatAligned(st, i, currentIndent, "if", TRUE)
        ELSE IF t.isEndDefine THEN FormatAligned(st, i, currentIndent, "define-event", TRUE)
        ELSE IF t.isEnd1dDomain THEN FormatAligned(st, i, currentIndent, "start-1d-domain", TRUE)
        ELSE IF t.isEnd2dDomain THEN FormatAligned(st, i, currentIndent, "start-2d-domain", TRUE)
        ELSE IF t.isElseIf \/ t.isElse THEN FormatAligned(st, i, currentIndent, "if", FALSE)
        ELSE IF t.isIfStart \/ t.isDefineEventStart \/ t.isStart1dDomain \/ t.isStart2dDomain
             THEN [edits |-> applyIndentEdit(st.edits, i, currentIndent, inner),
                   indentStack |->
                       Append(st.indentStack,
                              [kind |-> IF t.isIfStart THEN "if"
                                        ELSE IF t.isDefineEventStart THEN "define-event"
                                        ELSE IF t.isStart1dDomain THEN "start-1d-domain"
                                        ELSE "start-2d-domain",
                               indent |-> inner])]
        ELSE IF st.indentStack # <<>>
             THEN [st EXCEPT !.edits = applyIndentEdit(st.edits, i, currentIndent, inner)]
        ELSE st

RECURSIVE FormatFrom(_, _, _)
FormatFrom(lines, i, st) ==
    IF i >= Len(lines) THEN st
    ELSE FormatFrom(lines, i + 1, FormatLine(st, i, lines[i + 1]))

\* provideDocumentFormattingEdits on the tests of the lines of the document;
\* enabled is getConfiguredIfStatementFormattingEnabled().
provideDocumentFormattingEdits(lines, enabled) ==
    IF ~enabled THEN <<>>
    ELSE FormatFrom(lines, 0, [edits |-> <<>>, indentStack |-> <<>>]).edits

\* The editor applying the edits of one formatting request.
RECURSIVE ApplyTextEdits(_, _)
ApplyTextEdits(lines, edits) ==
    IF edits = <<>> THEN lines
    ELSE LET e == Head(edits)
         IN  ApplyTextEdits([lines EXCEPT ![e.line + 1] =
                                 JsSlice(@, 0, e.startChar) \o e.newText \o JsSliceFrom(@, e.endChar)],
                            Tail(edits))

(***************************************************************************)
(* The file system and the texts the analysis is run on.                   *)
(***************************************************************************)
DIR_w == <<"/", "w">>

DIR_m == <<"/", "w", "/", "m">>

FILE_a == <<"/", "w", "/", "a", ".", "t", "c", "f">>

FILE_r == <<"/", "w", "/", "r", "1", "_", "2", ".", "t", "c", "f">>

FILE_b == <<"/", "w", "/", "m", "/", "b", "1", ".", "t", "g", "c">>

FILE_c == <<"/", "w", "/", "m", "/", "c", "1", ".", "t", "g", "c">>

FILE_g1 == <<"/", "w", "/", "m", "/", "g", "1", ".", "s", "h", "p">>

FILE_g2 == <<"/", "w", "/", "m", "/", "g", "2", ".", "s", "h", "p">>

FILE_h == <<"/", "w", "/", "m", "/", "h", "1", "_", "2", ".", "s", "h", "p">>

L_blank == <<>>

L_note == <<"!", " ", "n", "o", "t", "e">>

L_ignore_file ==
    <<" ", " ", "!", " ", "t", "p", "f", "-", "i", "g", "n", "o", "r", "e", "-", "f", "i", "l",
      "e">>

L_missing == <<"R", "e", "a", "d", " ", "=", "=", " ", "x", ".", "s", "h", "p">>

L_missing_ignored ==
    <<"R", "e", "a", "d", " ", "=", "=", " ", "x", ".", "s", "h", "p", " ", "!", " ", "t", "p",
      "f", "-", "i", "g", "n", "o", "r", "e">>

L_old == <<"R", "e", "a", "d", " ", "=", "=", " ", "m", "/", "g", "1", ".", "s", "h", "p">>

L_three ==
    <<"R", "e", "a", "d", " ", "=", "=", " ", "m", "/", "g", "2", ".", "s", "h", "p", " ", "|",
      " ", "m", "/", "h", "1", "_", "2", ".", "s", "h", "p", " ", "|", " ", "y", ".", "s", "h",
      "p">>

L_if == <<"I", "f", " ", "S", "c", "e", "n", "a", "r", "i", "o", " ", "=", "=", " ", "D", "E", "V">>

L_end_if == <<"E", "n", "d", " ", "I", "f">>

L_if_ignored ==
    <<"I", "f", " ", "S", "c", "e", "n", "a", "r", "i", "o", " ", "=", "=", " ", "D", "E", "V",
      " ", "!", " ", "t", "p", "f", "-", "i", "g", "n", "o", "r", "e">>

L_define ==
    <<" ", "D", "e", "f", "i", "n", "e", " ", "E", "v", "e", "n", "t", " ", "=", "=", " ", "e">>

L_end_define == <<"E", "n", "d", " ", "D", "e", "f", "i", "n", "e">>

L_start_1d == <<"S", "t", "a", "r", "t", " ", "1", "D", " ", "D", "o", "m", "a", "i", "n">>

L_end_1d ==
    <<"E", "n", "d", " ", "1", "D", " ", "D", "o", "m", "a", "i", "n", " ", "!", " ", "e", "n",
      "d">>

L_set_note ==
    <<"S", "e", "t", " ", "I", "f", " ", "=", "=", " ", "1", " ", "!", " ", "E", "n", "d", " ", "I",
      "f">>

L_else_if == <<"E","l","s","e"," ","I","f"," ","S","c","e","n","a","r","i","o"," ","=","="," ","B">>

L_start_2d == <<"S","t","a","r","t"," ","2","D"," ","D","o","m","a","i","n">>

L_child_b == <<"R", "e", "a", "d", " ", "=", "=", " ", "m", "/", "b", "1", ".", "t", "g", "c">>

L_child_c == <<"R", "e", "a", "d", " ", "=", "=", " ", "m", "/", "c", "1", ".", "t", "g", "c">>

L_self_a == <<"R", "e", "a", "d", " ", "=", "=", " ", "a", ".", "t", "c", "f">>

L_to_a == <<"R", "e", "a", "d", " ", "=", "=", " ", ".", ".", "/", "a", ".", "t", "c", "f">>

L_to_b == <<"R", "e", "a", "d", " ", "=", "=", " ", "b", "1", ".", "t", "g", "c">>

L_to_c == <<"R", "e", "a", "d", " ", "=", "=", " ", "c", "1", ".", "t", "g", "c">>

L_missing_below == <<"R", "e", "a", "d", " ", "=", "=", " ", "z", ".", "s", "h", "p">>

L_old_below == <<"R", "e", "a", "d", " ", "=", "=", " ", "g", "1", ".", "s", "h", "p">>

\* The longest root text of the line and reference families, in lines.
MaxLines == 2

\* The longest root text of the block family, in lines.
MaxBlockLines == 3

\* contents.split(/\r?\n/) of a text of 1..n lines drawn from pool (an empty
\* file splits into one empty line).
Texts(pool, n) == UNION {[1..k -> pool] : k \in 1..n}

ControlFiles == {FILE_a, FILE_r, FILE_b, FILE_c}

Disk ==
    [files |-> ControlFiles \cup {FILE_g1, FILE_g2, FILE_h},
     dirs |-> {DIR_w, DIR_m},
     unreadable |-> {},
     unlistable |-> {},
     workspaceFolders |-> {DIR_w}]

\* Lines of a root .tcf in /w: the two directives, references to a missing file,
\* an outdated file, a latest, an ambiguous and a missing file on one line, and
\* a child control file.
LinePool ==
    {L_ignore_file, L_missing, L_missing_ignored, L_old, L_three, L_if_ignored, L_child_b}

BlockPool ==
    {L_if, L_end_if, L_define, L_end_define, L_start_1d, L_end_1d, L_start_2d, L_set_note}

RootRefPool == {L_child_b, L_child_c, L_self_a}

ChildTextsB ==
    {<<L_to_a>>, <<L_to_b>>, <<L_to_c>>, <<L_missing_below>>, <<L_old_below>>,
     <<L_missing_below, L_ignore_file>>, <<L_to_c, L_missing_below>>}

ChildTextsC == {<<L_blank>>, <<L_to_a>>, <<L_missing_below>>}

\* Texts of b1.tgc and c1.tgc below a root that references b1.tgc alone: c1.tgc
\* refers back to b1.tgc or references an outdated file.
CycleTextsB == {<<L_to_c>>, <<L_to_c, L_missing_below>>, <<L_missing_below, L_to_c, L_ignore_file>>}

CycleTextsC == {<<L_to_b>>, <<L_old_below>>}

ElseIfPool == {L_if, L_else_if, L_end_if, L_define}

AmbiguousRootPool == {L_blank, L_note, L_missing}

\* Every control file is blank but those of text.
ContentsWith(text) == text @@ [f \in ControlFiles |-> <<L_blank>>]

\* The extension host is not part of the study: nothing is open or tracked.
NoExtension ==
    /\ settings = [diagnosticLevel |-> "hint", analyzeAllControlFiles |-> FALSE]
    /\ textDocuments = {}
    /\ buffers = <<>>
    /\ rootDiagnosticsByRoot = <<>>
    /\ mergedFiles = {}
    /\ collection = <<>>
    /\ isRefreshing = FALSE
    /\ refreshes = <<>>
    /\ closed = {}

\* The state before the first pass over the root document, on a file system.
IdleOn(fileSystem) ==
    /\ disk = fileSystem
    /\ pc = "idle"
    /\ stack = <<>>
    /\ visited = <<>>
    /\ ctx = [tcfFilesByFolder |-> <<>>, latestTcfReferencedControls |-> {}]
    /\ scans = <<>>
    /\ fixedLine = -1
    /\ call = [fn |-> "none"]
    /\ NoExtension

Idle == IdleOn(Disk)

\* One root .tcf with any lines of LinePool, with both checks on or both off;
\* its child holds one reference to a missing file.
InitLines ==
    /\ \E on \in BOOLEAN :
           cfg = [enableLatestVersionChecks |-> on, enableIfStatementChecks |-> on]
    /\ doc = FILE_a
    /\ \E text \in Texts(LinePool, MaxLines) :
           contents = ContentsWith((FILE_a :> text) @@ (FILE_b :> <<L_missing_below>>))
    /\ Idle

\* One root .tcf of block openers and closers.
InitBlocks ==
    /\ cfg = [enableLatestVersionChecks |-> FALSE, enableIfStatementChecks |-> TRUE]
    /\ doc = FILE_a
    /\ \E text \in Texts(BlockPool, MaxBlockLines) : contents = ContentsWith(FILE_a :> text)
    /\ Idle

\* Three control files that reference each other in every way.
InitGraph ==
    /\ cfg = [enableLatestVersionChecks |-> TRUE, enableIfStatementChecks |-> TRUE]
    /\ doc = FILE_a
    /\ \E text \in Texts(RootRefPool, MaxLines), textB \in ChildTextsB, textC \in ChildTextsC :
           contents = ContentsWith((FILE_a :> text) @@ (FILE_b :> textB) @@ (FILE_c :> textC))
    /\ Idle

\* A root .tcf whose own name holds two numeric tokens.
InitAmbiguous ==
    /\ cfg \in [enableLatestVersionChecks : BOOLEAN, enableIfStatementChecks : {TRUE}]
    /\ doc = FILE_r
    /\ \E text \in Texts(AmbiguousRootPool, MaxLines) : contents = ContentsWith(FILE_r :> text)
    /\ Idle

\* A root that references b1.tgc, which references c1.tgc; and the root
\* r1_2.tcf, which is no latest .tcf, with a reference to b1.tgc, which
\* references an outdated file.
InitCycle ==
    /\ cfg = [enableLatestVersionChecks |-> TRUE, enableIfStatementChecks |-> TRUE]
    /\ \/ /\ doc = FILE_a
          /\ \E textB \in CycleTextsB, textC \in CycleTextsC :
                 contents = ContentsWith((FILE_a :> <<L_child_b>>) @@ (FILE_b :> textB)
                                             @@ (FILE_c :> textC))
       \/ /\ doc = FILE_r
          /\ contents = ContentsWith((FILE_r :> <<L_child_b>>) @@ (FILE_b :> <<L_old_below>>))
    /\ Idle

\* One root .tcf of If, Else If, End If and Define Event lines.
InitElseIf ==
    /\ cfg = [enableLatestVersionChecks |-> FALSE, enableIfStatementChecks |-> TRUE]
    /\ doc = FILE_a
    /\ \E text \in Texts(ElseIfPool, MaxBlockLines) : contents = ContentsWith(FILE_a :> text)
    /\ Idle

\* Files that readFileSync fails on and directories that readdirSync fails on:
\* the root references b1.tgc, c1.tgc (which references b1.tgc) and a missing
\* file.
UnreadablePool ==
    {[unreadable |-> {FILE_b}, unlistable |-> {}],
     [unreadable |-> {FILE_c}, unlistable |-> {}],
     [unreadable |-> {FILE_a}, unlistable |-> {}],
     [unreadable |-> {FILE_a}, unlistable |-> {DIR_w}],
     [unreadable |-> {FILE_a, FILE_b}, unlistable |-> {DIR_m}]}

UnreadableRoots ==
    {<<L_child_b>>, <<L_child_c>>, <<L_child_b, L_missing>>, <<L_child_c, L_child_b>>}

InitUnreadable ==
    /\ cfg = [enableLatestVersionChecks |-> TRUE, enableIfStatementChecks |-> TRUE]
    /\ doc = FILE_a
    /\ \E text \in UnreadableRoots :
           contents = ContentsWith((FILE_a :> text) @@ (FILE_b :> <<L_missing_below>>)
                                       @@ (FILE_c :> <<L_to_b>>))
    /\ \E failing \in UnreadablePool :
           IdleOn([Disk EXCEPT !.unreadable = failing.unreadable,
                               !.unlistable = failing.unlistable])

Init ==
    \/ InitLines
    \/ InitBlocks
    \/ InitGraph
    \/ InitAmbiguous
    \/ InitCycle
    \/ InitElseIf
    \/ InitUnreadable

Next ==
    \/ AnalyzeRoot
    \/ ScanLine
    \/ IgnoreFile
    \/ CheckCandidate
    \/ EnterChild
    \/ FinishFile
    \/ ApplyIgnoreLineFix

Spec == Init /\ [][Next]_vars

(***************************************************************************)
(* collectLatestTcfFiles on its own: the .tcf files of a scan, grouped by  *)
(* folder, and the list the function returns.                              *)
(***************************************************************************)
TCF_file == <<"/","w","/","f","i","l","e",".","t","c","f">>

TCF_king05 == <<"/","w","/","k","i","n","g","0","5",".","t","c","f">>

TCF_king08 == <<"/","w","/","k","i","n","g","0","8",".","t","c","f">>

TCF_king06 == <<"/","w","/","k","i","n","g","0","6",".","T","C","F">>

TCF_k1_2 == <<"/","w","/","k","1","_","2",".","t","c","f">>

TCF_king5a == <<"/","w","/","k","i","n","g","5","a",".","t","c","f">>

TCF_king09 == <<"/","w","/","m","/","k","i","n","g","0","9",".","t","c","f">>

TCF_queen07 == <<"/","w","/","q","u","e","e","n","0","7",".","t","c","f">>

MaxFolderFiles == 3

TcfPool ==
    {TCF_file, TCF_king05, TCF_king08, TCF_king06, TCF_k1_2, TCF_king5a, TCF_king09, TCF_queen07}

\* No pass over a document is in progress or possible, on a file system.
NoPassOn(fileSystem) ==
    /\ cfg = [enableLatestVersionChecks |-> TRUE, enableIfStatementChecks |-> TRUE]
    /\ disk = fileSystem
    /\ contents = ContentsWith(<<>>)
    /\ doc = FILE_a
    /\ pc = "off"
    /\ stack = <<>>
    /\ visited = <<>>
    /\ ctx = [tcfFilesByFolder |-> <<>>, latestTcfReferencedControls |-> {}]
    /\ scans = <<>>
    /\ fixedLine = -1
    /\ NoExtension

NoPass == NoPassOn(Disk)

InitLatest ==
    /\ NoPass
    /\ \E files \in {S \in SUBSET TcfPool : Cardinality(S) <= MaxFolderFiles} :
           call = [fn |-> "collectLatestTcfFiles", files |-> files, done |-> FALSE, result |-> {}]

CollectLatestTcfFiles ==
    /\ call.fn = "collectLatestTcfFiles"
    /\ ~call.done
    /\ \E result \in {collectLatestTcfFiles(GroupByFolder(call.files))} :
           call' = [call EXCEPT !.done = TRUE, !.result = result]
    /\ UNCHANGED <<world, pc, stack, visited, ctx, scans, fixedLine, extension>>

NextLatest == CollectLatestTcfFiles

SpecLatest == InitLatest /\ [][NextLatest]_vars

(***************************************************************************)
(* filterDiagnosticsByLevel on its own: a list of diagnostics of any       *)
(* severities, a configured level, and the list the function returns.      *)
(***************************************************************************)
MaxDiagnostics == 3

Severities == {"Error", "Warning", "Information", "Hint"}

Levels == {"error", "warning", "info", "information", "hint", "none", "verbose"}

\* The k-th diagnostic of the list is on line k - 1.
DiagnosticsOf(severities) ==
    [k \in DOMAIN severities |-> Diagnostic(k - 1, 0, 0, "FileNotFound", severities[k], <<>>, 0, 0)]

InitFilter ==
    /\ NoPass
    /\ \E n \in 0..MaxDiagnostics, level \in Levels :
           \E severities \in [1..n -> Severities] :
               call = [fn |-> "filterDiagnosticsByLevel", diagnostics |-> DiagnosticsOf(severities),
                       level |-> level, done |-> FALSE, result |-> <<>>]

FilterDiagnosticsByLevel ==
    /\ call.fn = "filterDiagnosticsByLevel"
    /\ ~call.done
    /\ call' = [call EXCEPT !.done = TRUE,
                            !.result = filterDiagnosticsByLevel(call.diagnostics, call.level)]
    /\ UNCHANGED <<world, pc, stack, visited, ctx, scans, fixedLine, extension>>

NextFilter == FilterDiagnosticsByLevel

SpecFilter == InitFilter /\ [][NextFilter]_vars

(***************************************************************************)
(* The `Update to latest version' quick fix on its own: the message of a   *)
(* diagnostic of the request and the text its range covers.                *)
(***************************************************************************)
T_levee == <<"l","e","v","e","e","_","v","0","1",".","s","h","p">>

T_g1 == <<"m","/","g","1",".","s","h","p">>

T_two == <<"m","2","/","g","1",".","s","h","p">>

T_letter == <<"g","1","a",".","s","h","p">>

T_mixed == <<"A","1","B","2",".","s","h","p">>

T_wide == <<"g","0","0","9",".","s","h","p">>

T_none == <<"x",".","s","h","p">>

T_tail == <<"r","u","n","7">>

\* Flagged texts: one run, a run in the folder as well, a run before a letter,
\* one run before a letter and one not, a run of three digits, no run, and a
\* run at the end.
FlaggedPool == {T_levee, T_g1, T_two, T_letter, T_mixed, T_wide, T_none, T_tail}

\* The most digits of the latest version of a message.
MaxLatestDigits == 3

LatestOfDigits == <<2, 10, 123, 1234>>

MSG_no_number == <<"R","e","f","e","r","e","n","c","e","d"," ","f","i","l","e"," ","i","s"," ","n","o","t"," ","t","h","e"," ","l","a","t","e","s","t"," ","v","e","r","s","i","o","n">>

MSG_upper == <<"N","O","T"," ","T","H","E"," ","L","A","T","E","S","T"," ","V","E","R","S","I","O","N"," ","(","L","A","T","E","S","T"," ","3",")">>

MSG_spaced == <<"n","o","t"," ","t","h","e"," ","l","a","t","e","s","t"," ","v","e","r","s","i","o","n"," ","(","L","a","t","e","s","t"," "," ","3",")",".">>

\* Messages of the request: the staleness message of versioning.ts for every
\* latest version, the other messages of the extension about g1.shp, and three
\* that another source could attach.
MessagePool ==
    {Message(Diagnostic(0, 0, 0, "NotLatest", "Warning", Basename(T_g1), 1, LatestOfDigits[k])) :
        k \in 1..MaxLatestDigits}
    \cup {Message(Diagnostic(0, 0, 0, kind, "Warning", Basename(T_g1), 1, 0)) :
              kind \in {"FileNotFound", "Summary", "Ambiguous"}}
    \cup {MSG_no_number, MSG_upper, MSG_spaced}

InitLatestFix ==
    /\ NoPass
    /\ \E message \in MessagePool, currentText \in FlaggedPool :
           call = [fn |-> "provideCodeActions", message |-> message, currentText |-> currentText,
                   done |-> FALSE, offered |-> FALSE, text |-> <<>>]

ProvideLatestFix ==
    /\ call.fn = "provideCodeActions"
    /\ ~call.done
    /\ \E fix \in {LatestFixFor(call.message, call.currentText)} :
           call' = [call EXCEPT !.done = TRUE, !.offered = fix.ok, !.text = fix.text]
    /\ UNCHANGED <<world, pc, stack, visited, ctx, scans, fixedLine, extension>>

NextLatestFix == ProvideLatestFix

SpecLatestFix == InitLatestFix /\ [][NextLatestFix]_vars

(***************************************************************************)
(* The update quick fix applied: a reference of a.tcf to a file of /w/m is *)
(* analysed, the fix offered on its staleness diagnostic replaces the text *)
(* of the reference, and the reference is analysed again on the same file  *)
(* system.                                                                 *)
(***************************************************************************)
FILE_g01 == <<"/","w","/","m","/","g","0","1",".","s","h","p">>

FILE_g10 == <<"/","w","/","m","/","g","1","0",".","s","h","p">>

FILE_g002 == <<"/","w","/","m","/","g","0","0","2",".","s","h","p">>

R_g01 == <<"m","/","g","0","1",".","s","h","p">>

R_g2 == <<"m","/","g","2",".","s","h","p">>

R_g002 == <<"m","/","g","0","0","2",".","s","h","p">>

\* Data files of /w/m: one series written at three widths, and a file with
\* two runs.
DataFilePool == {FILE_g1, FILE_g2, FILE_g01, FILE_g10, FILE_g002, FILE_h}

ReferencePool == {T_g1, R_g2, R_g01, R_g002}

\* The most data files of the folder.
MaxDataFiles == 3

\* The round of the inner loop of analyzeFile for one candidate of a file whose
\* references are checked, when the candidate is no control file.
ReferenceDiagnostics(docDir, candidate) ==
    IF ~existsSync(resolvePath(docDir, candidate.text)) THEN <<FileNotFound(candidate)>>
    ELSE checkReferencedFileLatestVersion(resolvePath(docDir, candidate.text), candidate)

\* The candidate of a reference that starts at column 8 of line 0.
ReferenceCandidate(text) ==
    [text |-> text, line |-> 0, startChar |-> 8, endChar |-> 8 + Len(text)]

InitUpdate ==
    /\ \E files \in {S \in SUBSET DataFilePool : Cardinality(S) <= MaxDataFiles} :
           NoPassOn([Disk EXCEPT !.files = ControlFiles \cup files])
    /\ \E currentText \in ReferencePool :
           call = [fn |-> "buildLatestVersionReplacement", currentText |-> currentText,
                   stage |-> "edited", fixed |-> FALSE, diagnostics |-> <<>>]

\* The document is analysed: the diagnostics of its reference.
AnalyseReference ==
    /\ call.fn = "buildLatestVersionReplacement"
    /\ call.stage = "edited"
    /\ call' = [call EXCEPT !.stage = "analysed",
                            !.diagnostics =
                                ReferenceDiagnostics(Dirname(doc), ReferenceCandidate(call.currentText))]
    /\ UNCHANGED <<world, pc, stack, visited, ctx, scans, fixedLine, extension>>

\* The user applies the update quick fix offered on a diagnostic of the
\* reference: the text of its range is replaced.
ApplyLatestFix ==
    /\ call.fn = "buildLatestVersionReplacement"
    /\ call.stage = "analysed"
    /\ ~call.fixed
    /\ \E k \in DOMAIN call.diagnostics :
           \E fix \in {LatestFixFor(Message(call.diagnostics[k]), call.currentText)} :
               /\ fix.ok
               /\ call' = [call EXCEPT !.stage = "edited", !.fixed = TRUE,
                                       !.currentText = fix.text]
    /\ UNCHANGED <<world, pc, stack, visited, ctx, scans, fixedLine, extension>>

NextUpdate == AnalyseReference \/ ApplyLatestFix

SpecUpdate == InitUpdate /\ [][NextUpdate]_vars

(***************************************************************************)
(* The formatter on its own: a document of a few lines and the setting.    *)
(***************************************************************************)
F_if == <<"I","f"," ","S","c","e","n","a","r","i","o"," ","=","="," ","a">>

F_define == <<" "," ","D","e","f","i","n","e"," ","E","v","e","n","t"," ","e">>

F_end_if == <<" "," "," "," ","E","n","d"," ","I","f">>

F_end_define == <<"E","n","d"," ","D","e","f","i","n","e">>

F_read == <<"R","e","a","d"," ","=","="," ","x">>

F_read_in == <<"\t","R","e","a","d"," ","=","="," ","y"," ","!"," ","c">>

F_else == <<" ","E","l","s","e">>

F_start_1d == <<"S","t","a","r","t"," ","1","D"," ","D","o","m","a","i","n">>

F_end_1d == <<" ","E","n","d"," ","1","D"," ","D","o","m","a","i","n">>

F_start_2d == <<"S","t","a","r","t"," ","2","D"," ","D","o","m","a","i","n">>

F_end_2d == <<"E","n","d"," ","2","D"," ","D","o","m","a","i","n">>

F_comment == <<" "," ","!"," ","n","o","t","e">>

FormatPool ==
    {F_if, F_define, F_end_if, F_end_define, F_read, F_read_in, F_else,
     F_start_1d, F_end_1d, F_start_2d, F_end_2d, F_comment}

\* The tests of the loop on each line of the pool, computed once.
TestsOfPool == [text \in FormatPool |-> LineTests(text)]

TestsOf(lines) == [k \in DOMAIN lines |-> TestsOfPool[lines[k]]]

\* The most lines of a formatted document.
MaxFormatLines == 5

FormatDocuments == UNION {[1..n -> FormatPool] : n \in 1..MaxFormatLines}

InitFormat ==
    /\ NoPass
    /\ \E lines \in FormatDocuments, enabled \in BOOLEAN :
           call = [fn |-> "provideDocumentFormattingEdits", lines |-> lines, enabled |-> enabled,
                   done |-> FALSE, edits |-> <<>>, result |-> lines]

FormatDocument ==
    /\ call.fn = "provideDocumentFormattingEdits"
    /\ ~call.done
    /\ \E edits \in {provideDocumentFormattingEdits(TestsOf(call.lines), call.enabled)} :
           call' = [call EXCEPT !.done = TRUE, !.edits = edits,
                                !.result = ApplyTextEdits(call.lines, edits)]
    /\ UNCHANGED <<world, pc, stack, visited, ctx, scans, fixedLine, extension>>

NextFormat == FormatDocument

SpecFormat == InitFormat /\ [][NextFormat]_vars

(***************************************************************************)
(* The formatter run twice: the document is formatted, the editor applies  *)
(* the edits, and the result is formatted again.                           *)
(***************************************************************************)
ReformatPool ==
    {F_if, F_define, F_end_if, F_end_define, F_read, F_read_in, F_else, F_start_1d, F_end_1d}

\* The most lines of a document that is formatted twice.
MaxReformatLines == 4

RECURSIVE Tabs(_)
Tabs(n) == IF n = 0 THEN <<>> ELSE <<"\t">> \o Tabs(n - 1)

\* The lines a formatted document can hold: a line of the pool with its leading
\* white space replaced by that of a line of the pool and tabs.
ReformattedLines ==
    {TestsOfPool[base].currentIndent \o Tabs(n) \o JsSliceFrom(text, Len(TestsOfPool[text].currentIndent)) :
        base \in ReformatPool, n \in 0..MaxReformatLines, text \in ReformatPool}

TestsOfReformatted == [text \in ReformattedLines |-> LineTests(text)]

InitReformat ==
    /\ NoPass
    /\ \E lines \in UNION {[1..n -> ReformatPool] : n \in 1..MaxReformatLines},
             enabled \in BOOLEAN :
           call = [fn |-> "provideDocumentFormattingEdits", lines |-> lines, enabled |-> enabled,
                   done |-> FALSE, edits |-> <<>>, result |-> lines,
                   again |-> FALSE, second |-> <<>>]

\* The formatted document is formatted again under the same setting.
FormatAgain ==
    /\ call.fn = "provideDocumentFormattingEdits"
    /\ call.done
    /\ ~call.again
    /\ call' = [call EXCEPT !.again = TRUE,
                            !.second = provideDocumentFormattingEdits(
                                           [k \in DOMAIN call.result |->
                                               TestsOfReformatted[call.result[k]]],
                                           call.enabled)]
    /\ UNCHANGED <<world, pc, stack, visited, ctx, scans, fixedLine, extension>>

NextReformat == FormatDocument \/ FormatAgain

SpecReformat == InitReformat /\ [][NextReformat]_vars

(***************************************************************************)
(* getLatestVersionStatus on its own: a path and the entries it is         *)
(* compared with, given by the caller or listed from the folder.           *)
(***************************************************************************)
N_flow01 == <<"/","w","/","f","l","o","w","0","1",".","t","s","1">>

N_flow02 == <<"/","w","/","f","l","o","w","0","2",".","t","s","1">>

N_flow01_upper == <<"/","w","/","f","l","o","w","0","1",".","T","S","1">>

N_token == <<"/","w","/","g","_","~","s","1","~","_","0","0","7",".","s","h","p">>

N_token_upper == <<"/","w","/","g","~","E","2","~","3",".","s","h","p">>

N_mixed == <<"/","w","/","a","1","b","2",".","s","h","p">>

N_two == <<"/","w","/","m","2","_","g","1",".","s","h","p">>

N_none == <<"/","w","/","x",".","s","h","p">>

N_letter == <<"/","w","/","g","1","a",".","s","h","p">>

N_g09 == <<"/","w","/","g","0","9",".","s","h","p">>

N_g10 == <<"/","w","/","g","1","0",".","s","h","p">>

N_only_token == <<"/","w","/","~","s","1","~",".","s","h","p">>

N_g11_upper == <<"/","w","/","g","1","1",".","S","H","P">>

N_token_next == <<"/","w","/","g","_","_","0","0","8",".","s","h","p">>

N_g12 == <<"/","w","/","g","1","2",".","s","h","p">>

\* Names with one run, with a run in the extension, with an extension in upper
\* case, with tokens, with a run before a letter, with two runs and with none.
StatusPool ==
    {N_flow01, N_flow02, N_flow01_upper, N_token, N_token_upper, N_mixed,
     N_two, N_none, N_letter, N_g09, N_g10, N_only_token, N_g11_upper, N_token_next,
     N_g12}

\* The most entries of a candidate list.
MaxCandidateFiles == 2

\* No call has returned yet.
NoStatus == [status |-> "none", currentVersion |-> 0, latestVersion |-> 0]

InitStatus ==
    /\ NoPass
    /\ \E filePath \in StatusPool, given \in BOOLEAN,
          files \in {S \in SUBSET StatusPool : Cardinality(S) <= MaxCandidateFiles} :
           call = [fn |-> "getLatestVersionStatus", filePath |-> filePath,
                   candidateFiles |-> [given |-> given, files |-> IF given THEN files ELSE {}],
                   done |-> FALSE, result |-> NoStatus, previous |-> NoStatus]

GetLatestVersionStatus ==
    /\ call.fn = "getLatestVersionStatus"
    /\ ~call.done
    /\ call' = [call EXCEPT !.done = TRUE,
                            !.result = getLatestVersionStatus(call.filePath, call.candidateFiles)]
    /\ UNCHANGED <<world, pc, stack, visited, ctx, scans, fixedLine, extension>>

\* The caller's list gains one more file of the folder, and the status of the
\* same path is asked for again; previous keeps the last result.
AddCandidate ==
    /\ call.fn = "getLatestVersionStatus"
    /\ call.done
    /\ call.candidateFiles.given
    /\ Cardinality(call.candidateFiles.files) < MaxCandidateFiles
    /\ \E entryPath \in StatusPool \ call.candidateFiles.files :
           call' = [call EXCEPT !.candidateFiles.files = @ \cup {entryPath},
                                !.done = FALSE, !.previous = call.result]
    /\ UNCHANGED <<world, pc, stack, visited, ctx, scans, fixedLine, extension>>

NextStatus == GetLatestVersionStatus \/ AddCandidate

SpecStatus == InitStatus /\ [][NextStatus]_vars

(***************************************************************************)
(* The version series of a file whose name gains and loses scenario and    *)
(* event tokens: what getLatestVersionStatus derives from each name.       *)
(***************************************************************************)
N_v2b_3 == <<"/","w","/","v","2","b","_","3",".","s","h","p">>

N_stray == <<"/","w","/","a","~","e","2",".","s","h","p">>

K_s1 == <<"~","s","1","~">>

K_E2 == <<"~","E","2","~">>

\* A name with one run, one with a run before a letter as well, and one with
\* a tilde that belongs to no token.
TokenNamePool == {N_g12, N_v2b_3, N_stray}

TokenPool == {K_s1, K_E2}

\* The longest name, its tokens included, that the renaming makes.
MaxNameLength == 11

\* The name of the path without its extension, and the path with another one.
NameOf(filePath) == StripExt(Basename(filePath), Extname(filePath))

WithName(filePath, name) == PathJoin(Dirname(filePath), name \o Extname(filePath))

InitTokens ==
    /\ NoPass
    /\ \E filePath \in TokenNamePool :
           call = [fn |-> "VersionSeries", original |-> filePath, filePath |-> filePath,
                   series |-> VersionSeries(filePath)]

\* The file is renamed: a token is inserted at a position of its name.
InsertToken ==
    /\ call.fn = "VersionSeries"
    /\ Len(NameOf(call.filePath)) + 4 <= MaxNameLength
    /\ \E token \in TokenPool, at \in 0..Len(NameOf(call.filePath)) :
           \E renamed \in {WithName(call.filePath,
                                     JsSlice(NameOf(call.filePath), 0, at) \o token
                                         \o JsSliceFrom(NameOf(call.filePath), at))} :
               call' = [call EXCEPT !.filePath = renamed, !.series = VersionSeries(renamed)]
    /\ UNCHANGED <<world, pc, stack, visited, ctx, scans, fixedLine, extension>>

\* The file is renamed: a token of its name is taken out.
RemoveToken ==
    /\ call.fn = "VersionSeries"
    /\ \E at \in 0..Len(NameOf(call.filePath)) :
           /\ TokenAt(NameOf(call.filePath), at)
           /\ \E renamed \in {WithName(call.filePath,
                                        JsSlice(NameOf(call.filePath), 0, at)
                                            \o JsSliceFrom(NameOf(call.filePath), at + 4))} :
                  call' = [call EXCEPT !.filePath = renamed, !.series = VersionSeries(renamed)]
    /\ UNCHANGED <<world, pc, stack, visited, ctx, scans, fixedLine, extension>>

NextTokens == InsertToken \/ RemoveToken

SpecTokens == InitTokens /\ [][NextTokens]_vars

(***************************************************************************)
(* The pass over a root .tcf of one command line: a value of segments      *)
(* separated by "|", or a key of the conditional headers with a value that *)
(* looks like a file.                                                      *)
(***************************************************************************)
K_Read == <<"R","e","a","d"," ","=","=">>

V_missing == <<" ","x",".","s","h","p">>

V_old == <<"m","/","g","1",".","s","h","p">>

V_macro == <<"m","/","<","<","s",">",">",".","s","h","p">>

V_layer_macro == <<"x",".","s","h","p"," ",">",">"," ","<","<","l",">",">">>

V_layer == <<"m","/","g","1",".","s","h","p"," ",">",">"," ","l","y","r"," ">>

V_child == <<"m","/","b","1",".","t","g","c">>

V_open == <<"<","<","x",".","s","h","p">>

\* Segments of a value: a missing file, an outdated file, a macro, a layer
\* selector followed by a macro, a layer selector, a child control file with one
\* issue, and a macro that is not closed.
SegmentPool == {V_missing, V_old, V_macro, V_layer_macro, V_layer, V_child, V_open}

\* The most segments of a value.
MaxSegments == 2

KEY_If_Event == <<"I","f"," ","E","v","e","n","t">>

KEY_if_scenario == <<"i","f"," "," ","s","c","e","n","a","r","i","o">>

KEY_Else_If_Event == <<"E","l","s","e"," ","I","f"," ","E","v","e","n","t">>

KEY_Else_If_Scenario == <<"E","l","s","e"," ","I","f"," ","S","c","e","n","a","r","i","o">>

KEY_Define_Event == <<"D","e","f","i","n","e"," ","E","v","e","n","t">>

KEY_Pause == <<" ","P","a","u","s","e">>

KEY_Read == <<"R","e","a","d">>

V_eq_missing == <<" ","=","="," ","x",".","s","h","p">>

V_eq_child == <<" ","=","="," ","m","/","b","1",".","t","g","c">>

KeyPool ==
    {KEY_If_Event, KEY_if_scenario, KEY_Else_If_Event, KEY_Else_If_Scenario, KEY_Define_Event,
     KEY_Pause, KEY_Read}

\* The root a.tcf holds the one line; m/b1.tgc refers to a missing file.
OneLine(text) ==
    /\ cfg = [enableLatestVersionChecks |-> TRUE, enableIfStatementChecks |-> TRUE]
    /\ doc = FILE_a
    /\ contents = ContentsWith((FILE_a :> <<text>>) @@ (FILE_b :> <<L_missing_below>>))
    /\ Idle

InitSegments ==
    \E segments \in Texts(SegmentPool, MaxSegments) : OneLine(K_Read \o JoinWith(segments, S_Pipe))

InitKeys == \E key \in KeyPool, value \in {V_eq_missing, V_eq_child} : OneLine(key \o value)

InitValues == InitSegments \/ InitKeys

NextValues ==
    \/ AnalyzeRoot
    \/ ScanLine
    \/ CheckCandidate
    \/ EnterChild
    \/ FinishFile

SpecValues == InitValues /\ [][NextValues]_vars

(***************************************************************************)
(* diagnostics.ts and extension.ts: the diagnostics each tracked root      *)
(* holds, their merge into the display collection, and the event handlers  *)
(* of activate.  refreshDiagnostics is the one asynchronous function: an   *)
(* activation runs from one await to the next without interruption, and    *)
(* between two awaits that resolve in the same job (no request leaves the  *)
(* extension host) no handler can run.                                     *)
(***************************************************************************)
FILE_notes == <<"/", "w", "/", "n", "o", "t", "e", "s", ".", "t", "x", "t">>

Documents == {FILE_a, FILE_b, FILE_notes}

\* document.languageId
languageId(fileName) == IF fileName = FILE_a THEN "tuflow" ELSE "plaintext"

shouldProcessDocument(fileName) ==
    \/ languageId(fileName) = "tuflow"
    \/ ToLower(Extname(fileName)) \in CONTROL_FILE_EXTENSIONS

\* The documents updateDiagnostics tracks as roots.
Roots == {fileName \in Documents : shouldProcessDocument(fileName)}

hasWorkspaceFolders == disk.workspaceFolders # {}

\* The texts a document of the study can hold.
Edits(fileName) ==
    CASE fileName = FILE_a -> {<<L_blank>>, <<L_child_b>>}
      [] fileName = FILE_b -> {<<L_blank>>, <<L_missing_below>>}
      [] OTHER -> {<<L_blank>>}

\* The files on disk: a.tcf refers to m/b1.tgc, which refers to a missing file.
SavedText(fileName) ==
    CASE fileName = FILE_a -> <<L_child_b>>
      [] fileName = FILE_b -> <<L_missing_below>>
      [] OTHER -> <<L_blank>>

\* What the pass pushes for a one-line text with one reference: the reference
\* of b1.tgc to a missing file, and the summary of that in a.tcf.
MissingBelow ==
    <<FileNotFound(extractPathCandidates(ValueText(L_missing_below),
                                         JsIndexOf(L_missing_below, S_EqEq) + 2, 0)[1])>>

SummaryOfChild ==
    <<Summary(extractPathCandidates(ValueText(L_child_b), JsIndexOf(L_child_b, S_EqEq) + 2, 0)[1],
              FILE_b, 1)>>

\* analyzeRootDocument(document) for the texts of Edits, with the latest-version
\* and block checks off: the map the pass over that text ends with.
analyzeRootDocument(fileName, text) ==
    CASE text = <<L_missing_below>> -> (fileName :> MissingBelow)
      [] text = <<L_child_b>> -> (fileName :> SummaryOfChild) @@ (FILE_b :> MissingBelow)
      [] OTHER -> (fileName :> <<>>)

computeDiagnosticsForDocument(fileName, text, severityLevel) ==
    LET diagnosticsByFile == analyzeRootDocument(fileName, text)
    IN  [filePath \in DOMAIN diagnosticsByFile |->
            filterDiagnosticsByLevel(diagnosticsByFile[filePath], severityLevel)]

\* A variant of SetRoot: the lists of a root that is present are kept, and the
\* new lists are added after them.
C19_SetRootKeepsEarlier(roots, rootKey, files) ==
    IF \E k \in DOMAIN roots : roots[k].root = rootKey
    THEN [k \in DOMAIN roots |->
             IF roots[k].root = rootKey
             THEN [root |-> rootKey,
                   files |-> [filePath \in DOMAIN roots[k].files \cup DOMAIN files |->
                                 IF filePath \notin DOMAIN files THEN roots[k].files[filePath]
                                 ELSE IF filePath \in DOMAIN roots[k].files
                                 THEN roots[k].files[filePath] \o files[filePath]
                                 ELSE files[filePath]]]
             ELSE roots[k]]
    ELSE Append(roots, [root |-> rootKey, files |-> files])

\* Map.prototype.set and .delete on rootDiagnosticsByRoot: a key that is present
\* keeps its place, a new key goes last.
SetRoot(roots, rootKey, files) ==
    IF \E k \in DOMAIN roots : roots[k].root = rootKey
    THEN [k \in DOMAIN roots |-> IF roots[k].root = rootKey
                                 THEN [root |-> rootKey, files |-> files]
                                 ELSE roots[k]]
    ELSE Append(roots, [root |-> rootKey, files |-> files])

DeleteRoot(roots, rootKey) == SelectSeq(roots, LAMBDA entry : entry.root # rootKey)

HasRoot(roots, rootKey) == \E k \in DOMAIN roots : roots[k].root = rootKey

\* A variant of MergeFiles: a path that is merged already keeps its list.
C18_MergeFilesKeepsFirst(merged, files) ==
    [filePath \in DOMAIN merged \cup DOMAIN files |->
        IF filePath \in DOMAIN merged THEN merged[filePath] ELSE files[filePath]]

\* The inner loop of rebuildMergedDiagnostics for one root.
MergeFiles(merged, files) ==
    [filePath \in DOMAIN merged \cup DOMAIN files |->
        IF filePath \notin DOMAIN files THEN merged[filePath]
        ELSE IF filePath \in DOMAIN merged THEN merged[filePath] \o files[filePath]
        ELSE files[filePath]]

RECURSIVE MergeRoots(_, _)
MergeRoots(merged, roots) ==
    IF roots = <<>> THEN merged
    ELSE MergeRoots(MergeFiles(merged, Head(roots).files), Tail(roots))

\* rebuildMergedDiagnostics once rootDiagnosticsByRoot is roots: the paths of
\* mergedFiles that are not merged any more are deleted from the collection,
\* every merged path is set, and mergedFiles becomes the merged paths.
RebuiltCollection(merged) ==
    [filePath \in (DOMAIN collection \ (mergedFiles \ DOMAIN merged)) \cup DOMAIN merged |->
        IF filePath \in DOMAIN merged THEN merged[filePath] ELSE collection[filePath]]

rebuildMergedDiagnostics(roots) ==
    /\ rootDiagnosticsByRoot' = roots
    /\ \E merged \in {MergeRoots(<<>>, roots)} :
           /\ collection' = RebuiltCollection(merged)
           /\ mergedFiles' = DOMAIN merged

\* The most refreshDiagnostics activations suspended at one time.
MaxRefreshes == 1

\* Every order of a set of documents (the order of workspace.textDocuments, of
\* the result of findFiles and of readdirSync is not specified).
Orders(S) ==
    {order \in [1..Cardinality(S) -> S] :
        \A j, k \in 1..Cardinality(S) : order[j] = order[k] => j = k}

\* vscode.workspace.findFiles(pattern, exclude)
findFiles ==
    {f \in disk.files :
        /\ Extname(f) \in CONTROL_FILE_EXTENSIONS
        /\ \E folder \in disk.workspaceFolders : StartsWith(f, folder \o <<SLASH>>)
        /\ \A k \in 1..(Len(Segments(f)) - 1) : ~shouldSkipFolderScan(Segments(f)[k])}

collectControlFilesRecursively(rootDir) ==
    {f \in disk.files :
        /\ ToLower(Extname(f)) \in CONTROL_FILE_EXTENSIONS
        /\ ScanReaches(rootDir, Dirname(f))}

\* The loop of refreshDiagnostics over the collected documents.
RECURSIVE NextRootDiagnostics(_, _, _, _)
NextRootDiagnostics(nextRootDiagnostics, documents, texts, severityLevel) ==
    IF documents = <<>> THEN nextRootDiagnostics
    ELSE NextRootDiagnostics(
             IF shouldProcessDocument(Head(documents))
             THEN SetRoot(nextRootDiagnostics, Head(documents),
                          computeDiagnosticsForDocument(Head(documents), texts[Head(documents)],
                                                        severityLevel))
             ELSE nextRootDiagnostics,
             Tail(documents), texts, severityLevel)

\* refreshDiagnostics from the return of collectDocumentsForRefresh to its end;
\* tasks are the activations that stay suspended.
FinishRefresh(documents, texts, config, tasks) ==
    /\ rebuildMergedDiagnostics(NextRootDiagnostics(<<>>, documents, texts,
                                                    config.diagnosticLevel))
    /\ isRefreshing' = FALSE
    /\ refreshes' = tasks

\* An activation of refreshDiagnostics reaches an await that leaves the job.
Suspend(task, tasks) ==
    /\ Len(tasks) < MaxRefreshes
    /\ refreshes' = Append(tasks, task)
    /\ isRefreshing' = TRUE
    /\ UNCHANGED <<rootDiagnosticsByRoot, mergedFiles, collection>>

\* The last loop of collectDocumentsForRefresh: the uris that documents holds are
\* passed over, and the first other one is opened.
OpenLoop(documents, uris, texts, config, tasks) ==
    \E rest \in {SelectSeq(uris, LAMBDA uri : \A k \in DOMAIN documents : documents[k] # uri)} :
        IF rest = <<>>
        THEN FinishRefresh(documents, texts, config, tasks)
        ELSE Suspend([at |-> "openTextDocument", documents |-> documents, uris |-> rest,
                      fired |-> FALSE], tasks)

\* refreshDiagnostics up to its first await that leaves the job, with the open
\* documents, the texts and the settings of that moment.
refreshDiagnostics(open, texts, config, tasks) ==
    \E documents \in Orders({d \in open : shouldProcessDocument(d)}) :
        IF ~config.analyzeAllControlFiles
        THEN FinishRefresh(documents, texts, config, tasks)
        ELSE IF hasWorkspaceFolders
        THEN Suspend([at |-> "findFiles", documents |-> documents, uris |-> <<>>,
                      fired |-> FALSE], tasks)
        ELSE \E uris \in Orders(UNION {collectControlFilesRecursively(Dirname(documents[k])) :
                                          k \in DOMAIN documents}) :
                 OpenLoop(documents, uris, texts, config, tasks)

updateDiagnostics(document, open, texts, tasks) ==
    IF ~shouldProcessDocument(document)
    THEN /\ refreshes' = tasks
         /\ UNCHANGED <<rootDiagnosticsByRoot, mergedFiles, collection, isRefreshing>>
    ELSE IF settings.analyzeAllControlFiles /\ ~isRefreshing /\ ~hasWorkspaceFolders
    THEN refreshDiagnostics(open, texts, settings, tasks)
    ELSE /\ rebuildMergedDiagnostics(
                SetRoot(rootDiagnosticsByRoot, document,
                        computeDiagnosticsForDocument(document, texts[document],
                                                      settings.diagnosticLevel)))
         /\ refreshes' = tasks
         /\ UNCHANGED isRefreshing

removeDiagnosticsForDocument(document) ==
    IF ~HasRoot(rootDiagnosticsByRoot, document)
    THEN UNCHANGED <<rootDiagnosticsByRoot, mergedFiles, collection>>
    ELSE rebuildMergedDiagnostics(DeleteRoot(rootDiagnosticsByRoot, document))

\* What no handler of the extension writes.
host == <<cfg, disk, contents, doc, pc, stack, visited, ctx, scans, fixedLine, call>>

\* onDidOpenTextDocument: the user opens a document with its saved text.
OnDidOpenTextDocument ==
    \E document \in Documents \ textDocuments :
        /\ textDocuments' = textDocuments \cup {document}
        /\ buffers' = [buffers EXCEPT ![document] = SavedText(document)]
        /\ closed' = closed \ {document}
        /\ updateDiagnostics(document, textDocuments', buffers', refreshes)
        /\ UNCHANGED <<host, settings>>

\* onDidChangeTextDocument: an edit of an open document.
OnDidChangeTextDocument ==
    \E document \in textDocuments :
        \E text \in Edits(document) \ {buffers[document]} :
            /\ buffers' = [buffers EXCEPT ![document] = text]
            /\ closed' = closed \ {document}
            /\ updateDiagnostics(document, textDocuments, buffers', refreshes)
            /\ UNCHANGED <<host, settings, textDocuments>>

\* onDidCloseTextDocument
OnDidCloseTextDocument ==
    \E document \in textDocuments :
        /\ textDocuments' = textDocuments \ {document}
        /\ closed' = closed \cup ({document} \cap Roots)
        /\ removeDiagnosticsForDocument(document)
        /\ UNCHANGED <<host, settings, buffers, isRefreshing, refreshes>>

DiagnosticLevels == {"hint", "none"}

\* onDidChangeConfiguration for diagnosticLevel or analyzeAllControlFiles (and
\* the call of activate, which refreshes under the settings it finds).
OnDidChangeConfiguration ==
    \E config \in [diagnosticLevel : DiagnosticLevels, analyzeAllControlFiles : BOOLEAN] :
        /\ settings' = config
        /\ refreshDiagnostics(textDocuments, buffers, config, refreshes)
        /\ UNCHANGED <<host, textDocuments, buffers, closed>>

\* The tasks but the k-th.
Others(tasks, k) == SubSeq(tasks, 1, k - 1) \o SubSeq(tasks, k + 1, Len(tasks))

\* await vscode.workspace.findFiles(...) resolves.
FindFilesResolves ==
    \E k \in DOMAIN refreshes :
        /\ refreshes[k].at = "findFiles"
        /\ \E uris \in Orders(findFiles) :
               OpenLoop(refreshes[k].documents, uris, buffers, settings, Others(refreshes, k))
        /\ UNCHANGED <<host, settings, textDocuments, buffers, closed>>

\* vscode.workspace.openTextDocument(uri) of a suspended refresh opens a document
\* that is not open: onDidOpenTextDocument is delivered before the promise
\* resolves.
OpenTextDocumentOpens ==
    \E k \in DOMAIN refreshes :
        /\ refreshes[k].at = "openTextDocument"
        /\ ~refreshes[k].fired
        /\ \E document \in {Head(refreshes[k].uris)} \ textDocuments :
               /\ textDocuments' = textDocuments \cup {document}
               /\ buffers' = [buffers EXCEPT ![document] = SavedText(document)]
               /\ closed' = closed \ {document}
               /\ updateDiagnostics(document, textDocuments', buffers',
                                    [refreshes EXCEPT ![k].fired = TRUE])
        /\ UNCHANGED <<host, settings>>

\* await vscode.workspace.openTextDocument(uri) resolves: the document joins the
\* collected documents and the loop goes on.
OpenTextDocumentResolves ==
    \E k \in DOMAIN refreshes :
        /\ refreshes[k].at = "openTextDocument"
        /\ refreshes[k].fired \/ Head(refreshes[k].uris) \in textDocuments
        /\ OpenLoop(Append(refreshes[k].documents, Head(refreshes[k].uris)),
                    Tail(refreshes[k].uris), buffers, settings, Others(refreshes, k))
        /\ UNCHANGED <<host, settings, textDocuments, buffers, closed>>

StoreDisk(folders) ==
    [files |-> Documents, dirs |-> {DIR_w, DIR_m}, unreadable |-> {}, unlistable |-> {},
     workspaceFolders |-> folders]

\* After activation with no document open; the workspace folder is /w/m (a.tcf
\* lies outside it) or there is none.
InitStore ==
    /\ cfg = [enableLatestVersionChecks |-> FALSE, enableIfStatementChecks |-> FALSE]
    /\ disk \in {StoreDisk({DIR_m}), StoreDisk({})}
    /\ contents = [fileName \in Documents |-> SavedText(fileName)]
    /\ doc = FILE_a
    /\ pc = "off"
    /\ stack = <<>>
    /\ visited = <<>>
    /\ ctx = [tcfFilesByFolder |-> <<>>, latestTcfReferencedControls |-> {}]
    /\ scans = <<>>
    /\ fixedLine = -1
    /\ call = [fn |-> "none"]
    /\ settings = [diagnosticLevel |-> "hint", analyzeAllControlFiles |-> FALSE]
    /\ textDocuments = {}
    /\ buffers = [fileName \in Documents |-> SavedText(fileName)]
    /\ rootDiagnosticsByRoot = <<>>
    /\ mergedFiles = {}
    /\ collection = <<>>
    /\ isRefreshing = FALSE
    /\ refreshes = <<>>
    /\ closed = {}

NextStore ==
    \/ OnDidOpenTextDocument
    \/ OnDidChangeTextDocument
    \/ OnDidCloseTextDocument
    \/ OnDidChangeConfiguration
    \/ FindFilesResolves
    \/ OpenTextDocumentOpens
    \/ OpenTextDocumentResolves

SpecStore == InitStore /\ [][NextStore]_vars

(***************************************************************************)
(* Reading the result of a pass.                                           *)
(***************************************************************************)
\* The diagnostics of a list whose range starts on the 0-based line.
OnLine(list, line) == SelectSeq(list, LAMBDA d : d.line = line)

OfKind(list, kinds) == SelectSeq(list, LAMBDA d : d.kind \in kinds)

\* The candidates the analysis takes from line k (1-based) of the text of f: none
\* from a comment, a blank line, a line without ==, a line with the line
\* directive, a line with a skip key.
CandidatesOnLine(f, k) ==
    LineOutcome([filePath |-> f, i |-> k - 1, blockStack |-> <<>>], contents[f][k]).candidates

\* Whether the text of f has the file-level directive on one of its first n lines.
DirectiveWithin(f, n) ==
    \E k \in 1..Min(n, Len(contents[f])) : IsIgnoreFileLine(contents[f][k])

\* f references the file g on a line that the analysis of f reaches.
RefersToData(f, g) ==
    \E k \in DOMAIN contents[f] :
        /\ ~DirectiveWithin(f, k)
        /\ \E j \in DOMAIN CandidatesOnLine(f, k) :
               Normalize(resolvePath(Dirname(f), CandidatesOnLine(f, k)[j].text)) = g

\* f references the control file g: on a line that the analysis of f reaches (no
\* file-level directive stands on it or above it), a candidate resolves to g,
\* which exists and can be read.
RefersTo(f, g) ==
    \E k \in DOMAIN contents[f] :
        /\ ~DirectiveWithin(f, k)
        /\ \E j \in DOMAIN CandidatesOnLine(f, k) :
               LET text == CandidatesOnLine(f, k)[j].text
               IN  /\ isLikelyFile(text)
                   /\ ~containsUnresolvedToken(text)
                   /\ Normalize(resolvePath(Dirname(f), text)) = g
                   /\ ToLower(Extname(g)) \in CONTROL_FILE_EXTENSIONS
                   /\ safeReadFile(g).ok

(***************************************************************************)
(* C1.  Analysing a root document terminates whatever references the       *)
(* control files hold to each other: a pass that has started reaches the   *)
(* return of the root call, and no path is ever analysed inside its own    *)
(* analysis (the recursion is cut at the first return to a path).  When    *)
(* the root A references B and B references A, both readable, the map the  *)
(* pass returns has an entry for A and an entry for B.  Termination is     *)
(* stated by a natural number that every step of a running pass decreases. *)
(***************************************************************************)
C1_NoPathTwiceOnStack ==
    \A j, k \in DOMAIN stack : j # k => stack[j].filePath # stack[k].filePath

C1_CycleHasBothEntries ==
    pc = "done" =>
        \A g \in ControlFiles :
            RefersTo(doc, g) /\ RefersTo(g, doc) => {doc, g} \subseteq DOMAIN visited

\* What is left of one text: its lines, counted with the candidates a line can
\* hold at most, and the return.
RECURSIVE C1_LinesLeft(_, _)
C1_LinesLeft(lines, from) ==
    IF from > Len(lines) THEN 0 ELSE Len(lines[from]) + 2 + C1_LinesLeft(lines, from + 1)

C1_FrameLeft(frame) ==
    IF frame.c = 0
    THEN C1_LinesLeft(frame.lines, frame.i + 1) + 1
    ELSE C1_LinesLeft(frame.lines, frame.i + 2) + (Len(frame.candidates) - frame.c + 1) + 1

RECURSIVE C1_StackLeft(_)
C1_StackLeft(frames) ==
    IF frames = <<>> THEN 0 ELSE C1_FrameLeft(Head(frames)) + C1_StackLeft(Tail(frames))

RECURSIVE C1_FilesLeft(_)
C1_FilesLeft(files) ==
    IF files = {} THEN 0
    ELSE LET f == CHOOSE g \in files : TRUE
         IN  C1_LinesLeft(contents[f], 1) + 2 + C1_FilesLeft(files \ {f})

\* A natural number that every step of a running pass makes smaller: the work
\* left in the activations on the stack and in the texts not yet in visited.
C1_Measure == C1_StackLeft(stack) + C1_FilesLeft(DOMAIN contents \ DOMAIN visited)

\* A running pass is never stuck: its innermost activation is at a line, at the
\* end of the lines, or at a candidate of the line.
C1_RunningCanStep ==
    pc = "run" => stack # <<>> /\ Top.c \in 0..Len(Top.candidates)

C1_CyclesTerminate ==
    /\ []C1_NoPathTwiceOnStack
    /\ []C1_CycleHasBothEntries
    /\ []C1_RunningCanStep
    /\ [][pc = "run" => C1_Measure' < C1_Measure]_vars

\* A finished pass over A -> B -> A, with B other than A.
C1_Witness ==
    /\ pc = "done"
    /\ \E g \in ControlFiles \ {doc} :
           RefersTo(doc, g) /\ RefersTo(g, doc) /\ {doc, g} \subseteq DOMAIN visited

(***************************************************************************)
(* C2.  When a pass has finished, the list recorded for a file whose text  *)
(* has a whole-line comment starting with tpf-ignore-file is empty,        *)
(* wherever the directive stands and whatever was recorded before it.  A   *)
(* finished pass can be followed by another pass over the same text, so    *)
(* the passes after the first are among the states this is checked in.     *)
(***************************************************************************)
C2_IsDirective(text) ==
    /\ Trim(text) # <<>>
    /\ Trim(text)[1] = "!"
    /\ StartsWith(Trim(Tail(Trim(text))), S_tpf_ignore_file)

C2_IgnoredFileIsEmpty ==
    pc = "done" =>
        \A f \in DOMAIN visited :
            (\E k \in DOMAIN contents[f] : C2_IsDirective(contents[f][k])) => visited[f] = <<>>

\* The directive stands below a reference to a child with diagnostics of its
\* own, so that a summary was recorded for the file before the directive.
C2_Witness ==
    /\ pc = "done"
    /\ \E f \in DOMAIN visited, g \in DOMAIN visited :
           /\ Len(contents[f]) >= 2
           /\ C2_IsDirective(contents[f][2])
           /\ ~C2_IsDirective(contents[f][1])
           /\ RefersTo(f, g)
           /\ visited[g] # <<>>
           /\ visited[f] = <<>>


(***************************************************************************)
(* C3.  When the inline comment of a line (the text after the first ! that *)
(* follows ==) starts with tpf-ignore, the list of the file holds no       *)
(* diagnostic whose range starts on that line.                             *)
(***************************************************************************)
C3_HasLineDirective(text) ==
    \E s \in 1..Len(text) :
        /\ JsIndexOf(text, S_EqEq) = s - 1
        /\ \E b \in (s + 2)..Len(text) :
               /\ text[b] = "!"
               /\ \A j \in (s + 2)..(b - 1) : text[j] # "!"
               /\ StartsWith(Trim(SubSeq(text, b + 1, Len(text))), S_tpf_ignore)

C3_IgnoredLineHasNoDiagnostic ==
    pc = "done" =>
        \A f \in DOMAIN visited :
            \A k \in DOMAIN contents[f] :
                C3_HasLineDirective(contents[f][k]) => OnLine(visited[f], k - 1) = <<>>


(***************************************************************************)
(* C4.  After the edit of the quick fix "Ignore this line" has been        *)
(* applied for a diagnostic that offers it, and the edited text has been   *)
(* analysed, the list of the document holds no diagnostic on that line.    *)
(***************************************************************************)
C4_FixedLineHasNoDiagnostic ==
    pc = "done" /\ fixedLine >= 0 => OnLine(visited[Normalize(doc)], fixedLine) = <<>>


(***************************************************************************)
(* C5.  In a file without the file-level directive, the File-not-found     *)
(* diagnostics of a finished pass are, in order, one Error `File not       *)
(* found: <text>` at the candidate's range for every candidate that is a   *)
(* likely file, holds no unresolved token and resolves to a path that does *)
(* not exist, over every line that is no comment, is not line-ignored and  *)
(* has no skip key; a candidate that resolves to an existing path, and     *)
(* every other candidate, has none.                                        *)
(***************************************************************************)
C5_Candidates(text, k) ==
    IF \/ StartsWith(Trim(text), S_Bang)
       \/ JsIndexOf(text, S_EqEq) < 0
       \/ C3_HasLineDirective(text)
       \/ shouldSkipKeyForFileLookup(Trim(JsSlice(text, 0, JsIndexOf(text, S_EqEq))))
    THEN <<>>
    ELSE extractPathCandidates(ValueText(text), JsIndexOf(text, S_EqEq) + 2, k - 1)

C5_IsMissing(f, candidate) ==
    /\ isLikelyFile(candidate.text)
    /\ ~containsUnresolvedToken(candidate.text)
    /\ LET raw == ReplaceChar(candidate.text, "\\", "/")
           p == IF IsAbsolute(raw) \/ Win32IsAbsolute(raw) THEN raw ELSE Resolve(Dirname(f), raw)
       IN  Normalize(p) \notin disk.files \cup disk.dirs

C5_Error(candidate) ==
    [line |-> candidate.line, startChar |-> candidate.startChar, endChar |-> candidate.endChar,
     kind |-> "FileNotFound", severity |-> "Error", text |-> candidate.text, n |-> 0, m |-> 0]

RECURSIVE C5_ExpectedOf(_, _, _)
C5_ExpectedOf(f, candidates, j) ==
    IF j > Len(candidates) THEN <<>>
    ELSE (IF C5_IsMissing(f, candidates[j]) THEN <<C5_Error(candidates[j])>> ELSE <<>>)
             \o C5_ExpectedOf(f, candidates, j + 1)

RECURSIVE C5_Expected(_, _)
C5_Expected(f, k) ==
    IF k > Len(contents[f]) THEN <<>>
    ELSE C5_ExpectedOf(f, C5_Candidates(contents[f][k], k), 1) \o C5_Expected(f, k + 1)

C6_Child(frame) ==
    Normalize(resolvePath(Dirname(frame.filePath), frame.candidates[frame.c].text))

C6_Added(parent) ==
    SubSeq(visited'[parent], Len(visited[parent]) + 1, Len(visited'[parent]))

C6_Warning(frame, child, returned) ==
    [line |-> frame.candidates[frame.c].line,
     startChar |-> frame.candidates[frame.c].startChar,
     endChar |-> frame.candidates[frame.c].endChar,
     kind |-> "Summary", severity |-> "Warning", text |-> Basename(child), n |-> returned,
     m |-> 0]

\* The list returned for the child is the child's list after the step, less the
\* summary when the child is the parent itself.
C6_Summarised(frame, child) ==
    LET parent == frame.filePath
        added == C6_Added(parent)
        summaries == OfKind(added, {"Summary"})
        returned == Len(visited'[child]) - (IF child = parent THEN Len(summaries) ELSE 0)
    IN  /\ child \in DOMAIN visited'
        /\ Len(visited'[parent]) >= Len(visited[parent])
        /\ SubSeq(visited'[parent], 1, Len(visited[parent])) = visited[parent]
        /\ summaries = IF returned > 0 THEN <<C6_Warning(frame, child, returned)>> ELSE <<>>
        /\ \A j \in DOMAIN added :
               /\ added[j].line = frame.candidates[frame.c].line
               /\ added[j].startChar = frame.candidates[frame.c].startChar
               /\ added[j].endChar = frame.candidates[frame.c].endChar
               /\ added[j].kind \in {"Summary", "NotLatest", "Ambiguous"}
        /\ \A j \in DOMAIN summaries :
               Message(summaries[j])
                   = M_ReferencedFileHas \o NatToString(returned) \o M_issues \o Basename(child)
        /\ \A g \in DOMAIN visited \ {parent, child} : visited'[g] = visited[g]

C6_ChildReturns ==
    pc = "run" /\ Len(stack) >= 2 /\ Len(stack') = Len(stack) - 1 =>
        /\ C6_Summarised(stack[Len(stack) - 1], Top.filePath)
        /\ OfKind(C6_Added(stack[Len(stack) - 1].filePath), {"NotLatest", "Ambiguous"}) = <<>>

C6_ChildCached ==
    /\ pc = "run"
    /\ Len(stack') = Len(stack)
    /\ Top.c >= 1
    /\ isLikelyFile(Top.candidates[Top.c].text)
    /\ ~containsUnresolvedToken(Top.candidates[Top.c].text)
    /\ ToLower(Extname(C6_Child(Top))) \in CONTROL_FILE_EXTENSIONS
    /\ C6_Child(Top) \in disk.files \ disk.unreadable
    /\ C6_Child(Top) \in DOMAIN visited
    => C6_Summarised(Top, C6_Child(Top))

C6_SummaryIffChildHasIssues == [][C6_ChildReturns /\ C6_ChildCached]_vars

\* The root holds the summary of a child whose list has two entries: a missing
\* file and the summary of a grandchild.
C6_Witness ==
    /\ pc = "done"
    /\ \E j \in DOMAIN visited[doc], g \in DOMAIN visited :
           /\ g # doc
           /\ visited[doc][j].kind = "Summary"
           /\ visited[doc][j].n = 2
           /\ visited[doc][j].text = Basename(g)
           /\ Len(visited[g]) = 2
           /\ OfKind(visited[g], {"Summary"}) # <<>>


(***************************************************************************)
(* C7.  On every step that handles a reference to an existing file from a  *)
(* control file whose references are checked (latest checks enabled, file  *)
(* eligible), the version diagnostics added to the referencing file's list *)
(* follow the status of the referenced file among the same-extension files *)
(* of its directory: not-latest gives exactly one Warning `Referenced file *)
(* is not the latest version in its folder: <name> (found c, latest m).`   *)
(* with c its version and m the maximum of its series, ambiguous gives one *)
(* Warning `Unable to determine latest version ...`, latest and no-version *)
(* give none.  A file whose references are not checked gets none.          *)
(***************************************************************************)
\* The name without its extension, in lower case.
C7_Stem(p) == ToLower(SubSeq(Basename(p), 1, Len(Basename(p)) - Len(Extname(p))))

\* The qualifying numeric runs of a stem: maximal runs of digits that no letter
\* follows, as pairs of first and last position.
C7_Runs(stem) ==
    {r \in (1..Len(stem)) \X (1..Len(stem)) :
        /\ r[1] <= r[2]
        /\ \A k \in r[1]..r[2] : stem[k] \in Digits
        /\ r[1] > 1 => stem[r[1] - 1] \notin Digits
        /\ r[2] < Len(stem) => stem[r[2] + 1] \notin Digits \cup LowerLetters}

C7_TheRun(stem) == CHOOSE r \in C7_Runs(stem) : TRUE

C7_Version(stem) == ParseInt(SubSeq(stem, C7_TheRun(stem)[1], C7_TheRun(stem)[2]))

\* The series key: the stem with its run replaced by #.
C7_Key(stem) ==
    SubSeq(stem, 1, C7_TheRun(stem)[1] - 1) \o <<"#">>
        \o SubSeq(stem, C7_TheRun(stem)[2] + 1, Len(stem))

\* The versions of the series of p among the files.
C7_SeriesVersions(p, files) ==
    {C7_Version(C7_Stem(q)) :
        q \in {q \in files :
                  /\ ToLower(Extname(q)) = ToLower(Extname(p))
                  /\ Cardinality(C7_Runs(C7_Stem(q))) = 1
                  /\ C7_Key(C7_Stem(q)) = C7_Key(C7_Stem(p))}}

C7_Status(p, files) ==
    IF C7_Runs(C7_Stem(p)) = {} THEN "no-version"
    ELSE IF Cardinality(C7_Runs(C7_Stem(p))) > 1 THEN "ambiguous"
    ELSE IF \E v \in C7_SeriesVersions(p, files) : v > C7_Version(C7_Stem(p)) THEN "not-latest"
    ELSE "latest"

C7_Siblings(p) == {q \in disk.files : Dirname(q) = Dirname(p)}

C7_Expected(candidate, p) ==
    IF C7_Status(p, C7_Siblings(p)) = "not-latest"
    THEN <<[line |-> candidate.line, startChar |-> candidate.startChar,
            endChar |-> candidate.endChar, kind |-> "NotLatest", severity |-> "Warning",
            text |-> Basename(p), n |-> C7_Version(C7_Stem(p)),
            m |-> SetMax(C7_SeriesVersions(p, C7_Siblings(p)))]>>
    ELSE IF C7_Status(p, C7_Siblings(p)) = "ambiguous"
    THEN <<[line |-> candidate.line, startChar |-> candidate.startChar,
            endChar |-> candidate.endChar, kind |-> "Ambiguous", severity |-> "Warning",
            text |-> Basename(p), n |-> 0, m |-> 0]>>
    ELSE <<>>

C7_Added(parent) ==
    OfKind(SubSeq(visited'[parent], Len(visited[parent]) + 1, Len(visited'[parent])),
           {"NotLatest", "Ambiguous"})

C7_Messages(list) ==
    \A j \in DOMAIN list :
        /\ list[j].kind = "NotLatest" =>
               Message(list[j]) = M_NotLatest \o list[j].text \o M_found \o NatToString(list[j].n)
                                      \o M_latest \o NatToString(list[j].m) \o M_closing
        /\ list[j].kind = "Ambiguous" => StartsWith(Message(list[j]), M_Unable \o list[j].text)

C7_ReferenceStep ==
    pc = "run" /\ stack # <<>> /\ Top.c >= 1 =>
        LET candidate == Top.candidates[Top.c]
            p == Normalize(resolvePath(Dirname(Top.filePath), candidate.text))
        IN  /\ Top.filePath \in DOMAIN visited'
            /\ Len(visited'[Top.filePath]) >= Len(visited[Top.filePath])
            /\ IF /\ Top.shouldCheckLatestReferencedFiles
                  /\ isLikelyFile(candidate.text)
                  /\ ~containsUnresolvedToken(candidate.text)
                  /\ p \in disk.files \cup disk.dirs
               THEN /\ cfg.enableLatestVersionChecks
                    /\ C7_Added(Top.filePath) = C7_Expected(candidate, p)
                    /\ C7_Messages(C7_Added(Top.filePath))
               ELSE C7_Added(Top.filePath) = <<>>

C7_VersionDiagnosticsFollowStatus == [][C7_ReferenceStep]_vars

\* g1.shp next to g2.shp: found 1, latest 2; and on another line an ambiguous
\* name and a latest one with no diagnostic.
C7_Witness ==
    /\ pc = "done"
    /\ \E j, k \in DOMAIN visited[doc] :
           /\ visited[doc][j].kind = "NotLatest"
           /\ visited[doc][j].text = Basename(FILE_g1)
           /\ visited[doc][j].n = 1
           /\ visited[doc][j].m = 2
           /\ visited[doc][k].kind = "Ambiguous"
           /\ visited[doc][k].text = Basename(FILE_h)
    /\ \A j \in DOMAIN visited[doc] : visited[doc][j].text # Basename(FILE_g2)
    /\ RefersToData(doc, FILE_g2)


(***************************************************************************)
(* C8.  A .tcf file of a folder is in the result of collectLatestTcfFiles  *)
(* if and only if its name has no qualifying numeric run, or exactly one   *)
(* and no other .tcf of the same folder with the same series key has a     *)
(* higher version; a file with an ambiguous name is never in the result.   *)
(***************************************************************************)
C8_InFolder(f) == {q \in call.files : Dirname(q) = Dirname(f)}

C8_LatestIffSeriesMaximum ==
    call.fn = "collectLatestTcfFiles" /\ call.done =>
        /\ call.result \subseteq {Normalize(f) : f \in call.files}
        /\ \A f \in call.files :
               Normalize(f) \in call.result
                   <=> C7_Status(f, C8_InFolder(f)) \in {"latest", "no-version"}

(***************************************************************************)
(* C10.  filterDiagnosticsByLevel: for the levels error, warning, info,    *)
(* information and hint the result is the input diagnostics whose severity *)
(* rank (Error 0, Warning 1, Information 2, Hint 3) is at most the rank of *)
(* the level, in their order; for none it is empty; for every level it is  *)
(* a sub-list of the input.                                                *)
(***************************************************************************)
C10_Rank == [s \in Severities |-> CASE s = "Error" -> 0 [] s = "Warning" -> 1
                                    [] s = "Information" -> 2 [] s = "Hint" -> 3]

C10_LevelRank ==
    ("error" :> 0) @@ ("warning" :> 1) @@ ("info" :> 2) @@ ("information" :> 2) @@ ("hint" :> 3)

\* Whether a is b with some of its elements left out.
RECURSIVE C10_IsSubList(_, _)
C10_IsSubList(a, b) ==
    IF a = <<>> THEN TRUE
    ELSE IF b = <<>> THEN FALSE
    ELSE IF Head(a) = Head(b) THEN C10_IsSubList(Tail(a), Tail(b))
    ELSE C10_IsSubList(a, Tail(b))

C10_FilterKeepsUpToLevel ==
    call.fn = "filterDiagnosticsByLevel" /\ call.done =>
        /\ call.level \in DOMAIN C10_LevelRank =>
               call.result = SelectSeq(call.diagnostics,
                                       LAMBDA d : C10_Rank[d.severity] <= C10_LevelRank[call.level])
        /\ call.level = "none" => call.result = <<>>
        /\ C10_IsSubList(call.result, call.diagnostics)

\* Level hint keeps a Hint; level warning drops it and keeps the order of the
\* rest.
C10_Witness ==
    /\ call.fn = "filterDiagnosticsByLevel"
    /\ call.done
    /\ call.level = "warning"
    /\ Len(call.diagnostics) = 3
    /\ call.diagnostics[1].severity = "Warning"
    /\ call.diagnostics[2].severity = "Hint"
    /\ call.diagnostics[3].severity = "Error"
    /\ call.result = <<call.diagnostics[1], call.diagnostics[3]>>


(***************************************************************************)
(* C9.  With block checks enabled, the end of a file's scan adds exactly   *)
(* one Error for each opener left on the block stack, at the opener's line *)
(* and first non-blank column, naming its missing closer, and block        *)
(* diagnostics come from nowhere else; a properly nested file has none and *)
(* a single `If Scenario == DEV` has exactly one.  The stack changes only  *)
(* by the first words of the part of a line before its first !: openers    *)
(* are pushed, a closer pops the opener of its kind when that is on top,   *)
(* and a whole-line comment or any other line leaves the stack as it is.   *)
(***************************************************************************)
C9_K_end_if == <<"e","n","d"," ","i","f">>

C9_K_end_define == <<"e","n","d"," ","d","e","f","i","n","e">>

C9_K_end_1d_domain == <<"e","n","d"," ","1","d"," ","d","o","m","a","i","n">>

C9_K_end_2d_domain == <<"e","n","d"," ","2","d"," ","d","o","m","a","i","n">>

C9_K_if_scenario == <<"i","f"," ","s","c","e","n","a","r","i","o">>

C9_K_if_event == <<"i","f"," ","e","v","e","n","t">>

C9_K_define_event == <<"d","e","f","i","n","e"," ","e","v","e","n","t">>

C9_K_start_1d_domain == <<"s","t","a","r","t"," ","1","d"," ","d","o","m","a","i","n">>

C9_K_start_2d_domain == <<"s","t","a","r","t"," ","2","d"," ","d","o","m","a","i","n">>

C9_K_statement == <<" ","s","t","a","t","e","m","e","n","t"," ","i","s"," ","m","i","s","s","i","n","g"," ","a"," ","c","l","o","s","i","n","g"," ">>

\* The part of a line before its first !, trimmed, in lower case, with every
\* run of white space as one space.
C9_Head(text) ==
    LET bang == CHOOSE b \in 1..(Len(text) + 1) :
                    /\ b <= Len(text) => text[b] = "!"
                    /\ \A j \in 1..(b - 1) : text[j] # "!"
    IN  CollapseSpaces(ToLower(Trim(SubSeq(text, 1, bang - 1))))

\* The head starts with the words.
C9_Starts(head, words) ==
    /\ StartsWith(head, words)
    /\ Len(head) > Len(words) => ~IsWordChar(head[Len(words) + 1])

\* What a line is for the blocks: the opener or the closer of a kind, or neither.
C9_Class(text) ==
    LET head == C9_Head(text)
    IN  IF C9_Starts(head, C9_K_end_if) THEN [role |-> "closer", kind |-> "if"]
        ELSE IF C9_Starts(head, C9_K_end_define) THEN [role |-> "closer", kind |-> "define-event"]
        ELSE IF C9_Starts(head, C9_K_end_1d_domain)
             THEN [role |-> "closer", kind |-> "start-1d-domain"]
        ELSE IF C9_Starts(head, C9_K_end_2d_domain)
             THEN [role |-> "closer", kind |-> "start-2d-domain"]
        ELSE IF \E w \in {C9_K_if_scenario, C9_K_if_event} :
                    StartsWith(head, w \o S_EqEq) \/ StartsWith(head, w \o <<" ">> \o S_EqEq)
             THEN [role |-> "opener", kind |-> "if"]
        ELSE IF C9_Starts(head, C9_K_define_event) THEN [role |-> "opener", kind |-> "define-event"]
        ELSE IF C9_Starts(head, C9_K_start_1d_domain)
             THEN [role |-> "opener", kind |-> "start-1d-domain"]
        ELSE IF C9_Starts(head, C9_K_start_2d_domain)
             THEN [role |-> "opener", kind |-> "start-2d-domain"]
        ELSE [role |-> "none", kind |-> "none"]

C9_OpenerName ==
    ("if" :> <<"I", "f">>) @@ ("define-event" :> ToUpperFirst(C9_K_define_event))
        @@ ("start-1d-domain" :> ToUpperFirst(C9_K_start_1d_domain))
        @@ ("start-2d-domain" :> ToUpperFirst(C9_K_start_2d_domain))

C9_CloserName ==
    ("if" :> ToUpperFirst(C9_K_end_if)) @@ ("define-event" :> ToUpperFirst(C9_K_end_define))
        @@ ("start-1d-domain" :> ToUpperFirst(C9_K_end_1d_domain))
        @@ ("start-2d-domain" :> ToUpperFirst(C9_K_end_2d_domain))

\* The first non-blank column of a line.
C9_Column(text) ==
    CHOOSE c \in 0..Len(text) :
        /\ c < Len(text) => ~IsSpace(text[c + 1])
        /\ \A j \in 1..c : IsSpace(text[j])

\* The Error of one entry of the block stack.
C9_Error(entry) ==
    [line |-> entry.line, startChar |-> entry.startChar, endChar |-> entry.endChar,
     kind |-> "Block", severity |-> "Error", text |-> C9_CloserName[entry.kind], n |-> 0, m |-> 0]

\* Every entry of every block stack is an opener of the text, on a line already
\* read, at its first non-blank column.
C9_EntriesAreOpeners ==
    \A j \in DOMAIN stack :
        \A k \in DOMAIN stack[j].blockStack :
            LET entry == stack[j].blockStack[k]
            IN  /\ entry.line < stack[j].i + (IF stack[j].c >= 1 THEN 1 ELSE 0)
                /\ C9_Class(stack[j].lines[entry.line + 1]) = [role |-> "opener", kind |-> entry.kind]
                /\ entry.startChar = C9_Column(stack[j].lines[entry.line + 1])

\* The end of the lines of the innermost file.
C9_EndOfFile ==
    pc = "run" /\ stack # <<>> /\ Top.c = 0 /\ Top.i >= Len(Top.lines) =>
        LET added == SubSeq(visited'[Top.filePath], Len(visited[Top.filePath]) + 1,
                            Len(visited'[Top.filePath]))
        IN  /\ Len(visited'[Top.filePath]) >= Len(visited[Top.filePath])
            /\ added = IF cfg.enableIfStatementChecks
                       THEN [k \in DOMAIN Top.blockStack |-> C9_Error(Top.blockStack[k])]
                       ELSE <<>>
            /\ \A k \in DOMAIN added :
                   Message(added[k])
                       = C9_OpenerName[Top.blockStack[k].kind] \o C9_K_statement
                             \o C9_CloserName[Top.blockStack[k].kind] \o <<".">>

\* Block diagnostics of a file change on no other step of a pass.
C9_OnlyAtEndOfFile ==
    pc = "run" =>
        \A f \in DOMAIN visited :
            f \in DOMAIN visited' /\ OfKind(visited'[f], {"Block"}) # OfKind(visited[f], {"Block"}) =>
                /\ Top.filePath = f
                /\ Top.c = 0
                /\ Top.i >= Len(Top.lines) \/ visited'[f] = <<>>

\* One line of the innermost file.
C9_Line ==
    pc = "run" /\ stack # <<>> /\ Top.c = 0 /\ Top.i < Len(Top.lines) /\ Len(stack') = Len(stack) =>
        LET text == Top.lines[Top.i + 1]
            class == C9_Class(text)
            before == Top.blockStack
            after == stack'[Len(stack)].blockStack
        IN  IF ~cfg.enableIfStatementChecks \/ class.role = "none" THEN after = before
            ELSE IF class.role = "opener"
            THEN /\ Len(after) = Len(before) + 1
                 /\ SubSeq(after, 1, Len(before)) = before
                 /\ after[Len(after)].kind = class.kind
                 /\ after[Len(after)].line = Top.i
                 /\ after[Len(after)].startChar = C9_Column(text)
            ELSE IF before # <<>> /\ before[Len(before)].kind = class.kind
            THEN after = SubSeq(before, 1, Len(before) - 1)
            ELSE after = before

\* The openers a text leaves open when every closer closes the innermost open
\* block of its kind; "bad" when a closer meets no such block.
RECURSIVE C9_Nesting(_, _, _)
C9_Nesting(lines, k, open) ==
    IF k > Len(lines) THEN [ok |-> TRUE, open |-> open]
    ELSE LET class == C9_Class(lines[k])
         IN  IF class.role = "opener" THEN C9_Nesting(lines, k + 1, Append(open, class.kind))
             ELSE IF class.role = "none" THEN C9_Nesting(lines, k + 1, open)
             ELSE IF open # <<>> /\ open[Len(open)] = class.kind
             THEN C9_Nesting(lines, k + 1, SubSeq(open, 1, Len(open) - 1))
             ELSE [ok |-> FALSE, open |-> open]

C9_ProperlyNested(lines) ==
    C9_Nesting(lines, 1, <<>>).ok /\ C9_Nesting(lines, 1, <<>>).open = <<>>

C9_FinishedFiles ==
    pc = "done" =>
        \A f \in DOMAIN visited :
            /\ C9_ProperlyNested(contents[f]) => OfKind(visited[f], {"Block"}) = <<>>
            /\ cfg.enableIfStatementChecks /\ contents[f] = <<L_if>> =>
                   visited[f] = <<[line |-> 0, startChar |-> 0, endChar |-> 2, kind |-> "Block",
                                   severity |-> "Error", text |-> S_End_If, n |-> 0, m |-> 0]>>

C9_OneErrorPerOpenBlock ==
    /\ []C9_EntriesAreOpeners
    /\ []C9_FinishedFiles
    /\ [][C9_EndOfFile /\ C9_OnlyAtEndOfFile /\ C9_Line]_vars

\* Two blocks left open, the inner one indented and met by the closer of the
\* outer one; a comment and a trailing comment that name a closer.
C9_Witness ==
    /\ pc = "done"
    /\ contents[doc] = <<L_if, L_define, L_end_if>>
    /\ Len(OfKind(visited[doc], {"Block"})) = 2
    /\ visited[doc][2].line = 1
    /\ visited[doc][2].startChar = 1
    /\ visited[doc][2].text = S_End_Define

(***************************************************************************)
(* Reading the store and the display.                                      *)
(***************************************************************************)
\* The table analyzeRootDocument agrees with the pass: a finished pass over a.tcf
\* with a text of Edits ends with the map of the table.
PassEndsWithTable ==
    (/\ pc = "done"
     /\ fixedLine = -1
     /\ doc = FILE_a
     /\ ~cfg.enableLatestVersionChecks
     /\ ~cfg.enableIfStatementChecks
     /\ contents[FILE_a] \in Edits(FILE_a)
     /\ contents[FILE_b] = SavedText(FILE_b))
        => visited = analyzeRootDocument(FILE_a, contents[FILE_a])

TrackedRoots(roots) == {roots[k].root : k \in DOMAIN roots}

\* The step takes a tracked root out of rootDiagnosticsByRoot and rebuilds.
RootLeaves == TrackedRoots(rootDiagnosticsByRoot) \ TrackedRoots(rootDiagnosticsByRoot') # {}

\* C11: after a step that removes a tracked root (removeDiagnosticsForDocument, or
\* a refresh that no longer includes it) and rebuilds the merge, the display
\* collection has no entry whose list is empty: a file with no merged diagnostic
\* has no entry at all.
C11_EmptyListHasNoEntry ==
    [][RootLeaves => \A filePath \in DOMAIN collection' : collection'[filePath] # <<>>]_vars

\* What the display shows for a path: no entry shows nothing.
Shown(filePath) == IF filePath \in DOMAIN collection THEN collection[filePath] ELSE <<>>

\* The display shows, for every path, the merge of the lists that roots hold.
ShowsMergeOf(roots) ==
    \E merged \in {MergeRoots(<<>>, roots)} :
        \A filePath \in DOMAIN collection \cup DOMAIN merged :
            Shown(filePath) = IF filePath \in DOMAIN merged THEN merged[filePath] ELSE <<>>

\* C12: a root that was closed and not opened or edited since has no entry in
\* rootDiagnosticsByRoot, and the display shows what the other roots hold,
\* whatever refreshDiagnostics activations were suspended meanwhile.
C12_ClosedRootHasNoEntry ==
    \A root \in closed :
        /\ ~HasRoot(rootDiagnosticsByRoot, root)
        /\ ShowsMergeOf(DeleteRoot(rootDiagnosticsByRoot, root))

(***************************************************************************)
(* C13.  The value of a command is split on "|".  A segment that holds     *)
(* both "<<" and ">>" gives no File-not-found, version or summary          *)
(* diagnostic; every other segment gives the diagnostics of its own path   *)
(* alone, whatever the other segments are, and its path is the text before *)
(* its first ">>", trimmed.                                                *)
(***************************************************************************)
C13_Kinds == {"FileNotFound", "NotLatest", "Ambiguous", "Summary"}

\* The value of the one line of the root: what follows `Read ==`.
C13_Value == SubSeq(contents[doc][1], Len(K_Read) + 1, Len(contents[doc][1]))

\* The segments of a value, as pairs of first and last position: the maximal
\* runs without "|".
C13_Segments(value) ==
    {seg \in (1..Len(value)) \X (1..Len(value)) :
        /\ seg[1] <= seg[2]
        /\ \A k \in seg[1]..seg[2] : value[k] # "|"
        /\ seg[1] > 1 => value[seg[1] - 1] = "|"
        /\ seg[2] < Len(value) => value[seg[2] + 1] = "|"}

C13_HasPair(value, seg, char) ==
    \E k \in seg[1]..(seg[2] - 1) : value[k] = char /\ value[k + 1] = char

C13_IsMacro(value, seg) == C13_HasPair(value, seg, "<") /\ C13_HasPair(value, seg, ">")

\* The last position of the part of a segment before its first ">>".
C13_PortionEnd(value, seg) ==
    IF C13_HasPair(value, seg, ">")
    THEN (CHOOSE k \in seg[1]..(seg[2] - 1) :
              /\ value[k] = ">" /\ value[k + 1] = ">"
              /\ \A j \in seg[1]..(k - 1) : ~(value[j] = ">" /\ value[j + 1] = ">")) - 1
    ELSE seg[2]

\* The positions of the portion that are not white space.
C13_Inked(value, seg) == {k \in seg[1]..C13_PortionEnd(value, seg) : value[k] # " "}

C13_HasPath(value, seg) == ~C13_IsMacro(value, seg) /\ C13_Inked(value, seg) # {}

\* The path of a segment with its range on line 0 of the root.
C13_Path(value, seg) ==
    LET first == CHOOSE k \in C13_Inked(value, seg) : \A j \in C13_Inked(value, seg) : k <= j
        last == CHOOSE k \in C13_Inked(value, seg) : \A j \in C13_Inked(value, seg) : j <= k
    IN  [text |-> SubSeq(value, first, last), line |-> 0,
         startChar |-> Len(K_Read) + first - 1, endChar |-> Len(K_Read) + last]

\* What a reference to the path gives when it stands alone.
C13_Alone(candidate) ==
    LET p == Normalize(resolvePath(Dirname(doc), candidate.text))
    IN  IF ~isLikelyFile(candidate.text) \/ Includes(candidate.text, S_MacroOpen) THEN <<>>
        ELSE IF p \notin disk.files \cup disk.dirs THEN <<FileNotFound(candidate)>>
        ELSE (IF shouldCheckLatestReferencedVersions(Normalize(doc), ctx).check
              THEN C7_Expected(candidate, p) ELSE <<>>)
             \o (IF p \in DOMAIN visited /\ visited[p] # <<>>
                 THEN <<Summary(candidate, p, Len(visited[p]))>> ELSE <<>>)

\* The diagnostics of the kinds on the range of a candidate.
C13_On(candidate) ==
    SelectSeq(OfKind(visited[doc], C13_Kinds),
              LAMBDA d : d.startChar = candidate.startChar /\ d.endChar = candidate.endChar)

C13_SegmentsAreCheckedAlone ==
    pc = "done" /\ StartsWith(contents[doc][1], K_Read) =>
        /\ \A seg \in C13_Segments(C13_Value) :
               C13_HasPath(C13_Value, seg) =>
                   C13_On(C13_Path(C13_Value, seg)) = C13_Alone(C13_Path(C13_Value, seg))
        /\ \A j \in DOMAIN visited[doc] :
               visited[doc][j].kind \in C13_Kinds =>
                   \E seg \in C13_Segments(C13_Value) :
                       /\ C13_HasPath(C13_Value, seg)
                       /\ visited[doc][j].startChar = C13_Path(C13_Value, seg).startChar
                       /\ visited[doc][j].endChar = C13_Path(C13_Value, seg).endChar

\* `x.shp >> <<l>>|m/g1.shp >> lyr `: nothing for the macro segment, and the
\* outdated file of the other segment is reported on the path before ">>".
C13_Witness ==
    /\ pc = "done"
    /\ contents[doc][1] = K_Read \o V_layer_macro \o S_Pipe \o V_layer
    /\ Len(visited[doc]) = 1
    /\ visited[doc][1].kind = "NotLatest"
    /\ visited[doc][1].startChar = Len(K_Read) + Len(V_layer_macro) + 1
    /\ visited[doc][1].endChar = visited[doc][1].startChar + Len(V_old)

(***************************************************************************)
(* C14.  A line whose key, with white space collapsed and in upper case,   *)
(* is PAUSE or starts with IF EVENT, IF SCENARIO, ELSE IF EVENT, ELSE IF   *)
(* SCENARIO or DEFINE EVENT gives no File-not-found, version or summary    *)
(* diagnostic, whatever its value.                                         *)
(***************************************************************************)
C14_IF_SCENARIO == <<"I", "F", " ", "S", "C", "E", "N", "A", "R", "I", "O">>

C14_ELSE_IF_SCENARIO ==
    <<"E", "L", "S", "E", " ", "I", "F", " ", "S", "C", "E", "N", "A", "R", "I", "O">>

C14_Headers ==
    {S_IF_EVENT, C14_IF_SCENARIO, S_ELSE_IF_EVENT, C14_ELSE_IF_SCENARIO, S_DEFINE_EVENT}

C14_Key(text) == ToUpper(Trim(CollapseSpaces(JsSlice(text, 0, JsIndexOf(text, S_EqEq)))))

C14_IsSkippedKey(text) ==
    /\ JsIndexOf(text, S_EqEq) >= 0
    /\ \/ C14_Key(text) = S_PAUSE
       \/ \E header \in C14_Headers : StartsWith(C14_Key(text), header)

C14_SkippedKeyGivesNoFileDiagnostic ==
    pc = "done" /\ C14_IsSkippedKey(contents[doc][1]) =>
        OfKind(OnLine(visited[doc], 0), {"FileNotFound", "NotLatest", "Ambiguous", "Summary"}) = <<>>

(***************************************************************************)
(* C15.  The `Update to latest version' fix is offered for a diagnostic    *)
(* exactly when its message holds `not the latest version' and `latest N)' *)
(* and the flagged text has exactly one run of digits that no letter       *)
(* follows; its text is the flagged text with that run replaced by N in    *)
(* decimal, padded with zeros on the left to the width of the run and      *)
(* never cut.                                                              *)
(***************************************************************************)
\* The places where `latest', white space, digits and `)' follow one another in
\* a message, whatever the case: the first and last position of the digits.
C15_LatestNumbers(message) ==
    {p \in (1..Len(message)) \X (1..Len(message)) :
        /\ p[1] <= p[2] /\ p[2] < Len(message)
        /\ \A k \in p[1]..p[2] : message[k] \in Digits
        /\ message[p[2] + 1] = ")"
        /\ \E a \in 1..(p[1] - 7) :
               /\ ToLower(SubSeq(message, a, a + 5)) = S_latest
               /\ \A k \in (a + 6)..(p[1] - 1) : message[k] = " "}

C15_N(message) ==
    LET first == CHOOSE p \in C15_LatestNumbers(message) :
                     \A q \in C15_LatestNumbers(message) : p[1] <= q[1]
    IN  ParseInt(SubSeq(message, first[1], first[2]))

C15_Offered(message, flagged) ==
    /\ Includes(message, Q_NotLatest)
    /\ C15_LatestNumbers(message) # {}
    /\ Cardinality(C7_Runs(ToLower(flagged))) = 1

C15_Zeros(n) == [k \in 1..n |-> "0"]

C15_Text(message, flagged) ==
    LET run == C7_TheRun(ToLower(flagged))
        digits == NatToString(C15_N(message))
        width == run[2] - run[1] + 1
    IN  SubSeq(flagged, 1, run[1] - 1)
            \o (IF Len(digits) < width THEN C15_Zeros(width - Len(digits)) ELSE <<>>) \o digits
            \o SubSeq(flagged, run[2] + 1, Len(flagged))

C16_Content(line) ==
    LET bangs == {k \in DOMAIN line : line[k] = "!"}
    IN  IF bangs = {} THEN line
        ELSE SubSeq(line, 1, (CHOOSE k \in bangs : \A j \in bangs : k <= j) - 1)

C16_Skipped(line) == \A k \in DOMAIN C16_Content(line) : IsSpace(C16_Content(line)[k])

C16_IndentLen(line) ==
    CHOOSE n \in 0..Len(line) :
        /\ \A k \in 1..n : IsSpace(line[k])
        /\ n = Len(line) \/ ~IsSpace(line[n + 1])

C16_Indent(line) == SubSeq(line, 1, C16_IndentLen(line))

C16_Rest(line) == SubSeq(line, C16_IndentLen(line) + 1, Len(line))

C16_Opener(line) ==
    IF C16_Skipped(line) THEN "none"
    ELSE IF IF_STATEMENT_REGEX(C16_Content(line)) /\ ~ELSE_REGEX(C16_Content(line)) THEN "if"
    ELSE IF DEFINE_EVENT_REGEX(C16_Content(line)) THEN "define-event"
    ELSE IF START_1D_DOMAIN_REGEX(C16_Content(line)) THEN "start-1d-domain"
    ELSE IF START_2D_DOMAIN_REGEX(C16_Content(line)) THEN "start-2d-domain"
    ELSE "none"

C16_Closer(line) ==
    IF C16_Skipped(line) THEN "none"
    ELSE IF END_IF_REGEX(C16_Content(line)) THEN "if"
    ELSE IF END_DEFINE_REGEX(C16_Content(line)) THEN "define-event"
    ELSE IF END_1D_DOMAIN_REGEX(C16_Content(line)) THEN "start-1d-domain"
    ELSE IF END_2D_DOMAIN_REGEX(C16_Content(line)) THEN "start-2d-domain"
    ELSE "none"

\* What each line of the pool is, computed once.
C16_Lines ==
    [line \in FormatPool |->
        [skipped |-> C16_Skipped(line), opener |-> C16_Opener(line), closer |-> C16_Closer(line),
         else |-> ~C16_Skipped(line) /\ C16_Closer(line) = "none" /\ ELSE_REGEX(C16_Content(line))]]

C16_OpenerKind(line) == C16_Lines[line].opener

C16_CloserKind(line) == C16_Lines[line].closer

C16_IsElse(line) == C16_Lines[line].else

\* The positions in the sequence open (of line numbers) of the openers of a kind.
C16_OfKind(lines, open, kind) == {j \in DOMAIN open : C16_OpenerKind(lines[open[j]]) = kind}

C16_Nearest(lines, open, kind) ==
    CHOOSE j \in C16_OfKind(lines, open, kind) : \A k \in C16_OfKind(lines, open, kind) : k <= j

\* The line numbers (from 1) of the openers that are open after the first n
\* lines, outermost first: a closing line closes the nearest open opener of
\* its kind.
RECURSIVE C16_OpenAfter(_, _)
C16_OpenAfter(lines, n) ==
    IF n = 0 THEN <<>>
    ELSE LET open == C16_OpenAfter(lines, n - 1)
             kind == C16_CloserKind(lines[n])
         IN  IF C16_OpenerKind(lines[n]) # "none" THEN Append(open, n)
             ELSE IF kind # "none" /\ C16_OfKind(lines, open, kind) # {}
             THEN SubSeq(open, 1, C16_Nearest(lines, open, kind) - 1)
                      \o SubSeq(open, C16_Nearest(lines, open, kind) + 1, Len(open))
             ELSE open

C16_LineIsFormatted(lines, result, n) ==
    LET open == C16_OpenAfter(lines, n - 1)
        kind == IF C16_IsElse(lines[n]) THEN "if" ELSE C16_CloserKind(lines[n])
    IN  IF C16_Lines[lines[n]].skipped THEN result[n] = lines[n]
        ELSE IF kind # "none"
        THEN C16_OfKind(lines, open, kind) # {} =>
                 C16_Indent(result[n]) = C16_Indent(result[open[C16_Nearest(lines, open, kind)]])
        ELSE IF open = <<>> THEN result[n] = lines[n]
        ELSE C16_Indent(result[n]) = C16_Indent(result[open[Len(open)]]) \o <<"\t">>

C16_Formatted(lines, edits, result) ==
    /\ Len(result) = Len(lines)
    /\ \A n \in DOMAIN lines :
           /\ C16_Rest(result[n]) = C16_Rest(lines[n])
           /\ C16_LineIsFormatted(lines, result, n)
    /\ \A k \in DOMAIN edits :
           /\ edits[k].startChar = 0
           /\ edits[k].endChar = C16_IndentLen(lines[edits[k].line + 1])
           /\ \A c \in DOMAIN edits[k].newText : IsSpace(edits[k].newText[c])

C16_BlocksAreIndented ==
    call.fn = "provideDocumentFormattingEdits" /\ call.done /\ call.enabled =>
        C16_Formatted(call.lines, call.edits, call.result)

\* Whether every closing line of a document closes the innermost open opener or
\* none at all: the blocks do not cross.
C16_Nested(lines) ==
    \A n \in DOMAIN lines :
        LET open == C16_OpenAfter(lines, n - 1)
            kind == C16_CloserKind(lines[n])
        IN  kind # "none" /\ C16_OfKind(lines, open, kind) # {} =>
                C16_Nearest(lines, open, kind) = Len(open)

\* On documents whose blocks do not cross, the edits give the indentation above.
NestedBlocksAreIndented ==
    call.fn = "provideDocumentFormattingEdits" /\ call.done /\ call.enabled
        /\ C16_Nested(call.lines) =>
            C16_Formatted(call.lines, call.edits, call.result)

\* Without the setting there are no edits.
DisabledFormatterHasNoEdits ==
    call.fn = "provideDocumentFormattingEdits" /\ call.done /\ ~call.enabled => call.edits = <<>>

(***************************************************************************)
(* C17.  In one analysis of a root the lines of each control file, named   *)
(* by its normalized path, are processed at most once: a reference to a    *)
(* file that visited already holds starts no new activation, and the file  *)
(* is neither read nor scanned again.                                      *)
(***************************************************************************)
\* The candidate at hand resolves to a control file that visited holds.
C17_SecondVisit == pc = "run" /\ Top.c >= 1 /\ CandidateCase(Top) = "cached"

C17_ScannedOnce == \A filePath \in DOMAIN scans' : scans'[filePath].scanned <= 1

C17_NoNewActivation ==
    /\ Len(stack') = Len(stack)
    /\ DOMAIN visited' = DOMAIN visited
    /\ \A filePath \in DOMAIN visited \ {Top.filePath} : visited'[filePath] = visited[filePath]

C17_FileIsProcessedOnce ==
    [][C17_ScannedOnce /\ (C17_SecondVisit => C17_NoNewActivation /\ scans' = scans)]_vars

\* The lines of a file are scanned at most once in a pass, and a reference to a
\* file that visited holds starts no activation and scans nothing.
LinesAreScannedOnce ==
    [][/\ C17_ScannedOnce
       /\ C17_SecondVisit =>
              /\ C17_NoNewActivation
              /\ \A filePath \in DOMAIN scans : scans'[filePath].scanned = scans[filePath].scanned]_vars

SecondVisitHappens ==
    /\ pc = "run"
    /\ \E filePath \in DOMAIN scans : scans[filePath].read >= 2 /\ scans[filePath].scanned = 1

(***************************************************************************)
(* C18.  After every completed updateDiagnostics,                          *)
(* removeDiagnosticsForDocument and refreshDiagnostics, for every path:    *)
(* the list the display shows holds each diagnostic as many times as the   *)
(* lists of the tracked roots for that path hold it together; a path that  *)
(* no tracked root holds has no entry; mergedFiles is the set of the paths *)
(* that some tracked root holds.  (An activation of refreshDiagnostics     *)
(* that is suspended has written nothing yet.)                             *)
(***************************************************************************)
\* The places of rootDiagnosticsByRoot whose root holds a list for the path.
C18_Holders(filePath) ==
    {k \in DOMAIN rootDiagnosticsByRoot : filePath \in DOMAIN rootDiagnosticsByRoot[k].files}

C18_HeldPaths == UNION {DOMAIN rootDiagnosticsByRoot[k].files : k \in DOMAIN rootDiagnosticsByRoot}

\* How many times the tracked roots hold the diagnostic for the path.
C18_TimesHeld(filePath, d) ==
    Cardinality({at \in C18_Holders(filePath) \X (1..MaxDiagnostics) :
                    /\ at[2] <= Len(rootDiagnosticsByRoot[at[1]].files[filePath])
                    /\ rootDiagnosticsByRoot[at[1]].files[filePath][at[2]] = d})

C18_TimesShown(filePath, d) ==
    Cardinality({i \in DOMAIN collection[filePath] : collection[filePath][i] = d})

C18_Diagnostics(filePath) ==
    {collection[filePath][i] : i \in DOMAIN collection[filePath]}
    \cup UNION {{rootDiagnosticsByRoot[k].files[filePath][i] :
                    i \in DOMAIN rootDiagnosticsByRoot[k].files[filePath]} :
                k \in C18_Holders(filePath)}

C18_DisplayIsUnionOfRoots ==
    /\ DOMAIN collection = C18_HeldPaths
    /\ mergedFiles = C18_HeldPaths
    /\ \A filePath \in C18_HeldPaths :
           /\ \A k \in C18_Holders(filePath) :
                  Len(rootDiagnosticsByRoot[k].files[filePath]) <= MaxDiagnostics
           /\ \A d \in C18_Diagnostics(filePath) :
                  C18_TimesShown(filePath, d) = C18_TimesHeld(filePath, d)

\* Two tracked roots hold the same diagnostic for m/b1.tgc, and the display
\* shows it twice.
C18_Witness ==
    /\ Cardinality(C18_Holders(FILE_b)) = 2
    /\ \E d \in C18_Diagnostics(FILE_b) : C18_TimesShown(FILE_b, d) = 2

(***************************************************************************)
(* C19.  updateDiagnostics for a supported document that is not redirected *)
(* to a refresh sets the entry of that root to the filtered result of the  *)
(* new pass alone and leaves the entry of every other root as it was; for  *)
(* a document that is neither of language tuflow nor a control file it     *)
(* changes neither rootDiagnosticsByRoot nor the display.                  *)
(***************************************************************************)
\* The documents updateDiagnostics is called for in the step: the one that is
\* opened (by the user or by a refresh) or edited.
C19_Updated ==
    (textDocuments' \ textDocuments)
    \cup {document \in textDocuments \cap textDocuments' : buffers'[document] # buffers[document]}

C19_Supported(document) ==
    \/ languageId(document) = "tuflow"
    \/ ToLower(Extname(document)) \in CONTROL_FILE_EXTENSIONS

C19_Redirected == settings.analyzeAllControlFiles /\ ~isRefreshing /\ disk.workspaceFolders = {}

\* The entry of a root: whether it is tracked, and its lists.
C19_Entry(roots, rootKey) ==
    IF \E k \in DOMAIN roots : roots[k].root = rootKey
    THEN [tracked |-> TRUE,
          files |-> roots[CHOOSE k \in DOMAIN roots : roots[k].root = rootKey].files]
    ELSE [tracked |-> FALSE, files |-> <<>>]

\* The result of the pass over the text the document has after the step, under
\* the level of the settings: all of it under hint, nothing under none.
C19_NewPass(document) ==
    [filePath \in DOMAIN analyzeRootDocument(document, buffers'[document]) |->
        IF settings.diagnosticLevel = "none" THEN <<>>
        ELSE analyzeRootDocument(document, buffers'[document])[filePath]]

C19_UpdateReplacesTheRoot ==
    [][\A document \in C19_Updated :
          IF ~C19_Supported(document)
          THEN /\ rootDiagnosticsByRoot' = rootDiagnosticsByRoot
               /\ collection' = collection
               /\ mergedFiles' = mergedFiles
          ELSE ~C19_Redirected =>
                   /\ C19_Entry(rootDiagnosticsByRoot', document)
                          = [tracked |-> TRUE, files |-> C19_NewPass(document)]
                   /\ \A other \in (Documents \ {document}) :
                          C19_Entry(rootDiagnosticsByRoot', other)
                              = C19_Entry(rootDiagnosticsByRoot, other)]_vars

\* a.tcf was edited to a blank text after a pass that had found issues: its
\* entry holds the empty list of the new pass alone, the entry of m/b1.tgc still
\* holds its diagnostic, and the open text file has no entry.
C19_Witness ==
    /\ FILE_notes \in textDocuments
    /\ ~HasRoot(rootDiagnosticsByRoot, FILE_notes)
    /\ buffers[FILE_a] = <<L_blank>>
    /\ SavedText(FILE_a) # <<L_blank>>
    /\ C19_Entry(rootDiagnosticsByRoot, FILE_a) = [tracked |-> TRUE, files |-> (FILE_a :> <<>>)]
    /\ C19_Entry(rootDiagnosticsByRoot, FILE_b).tracked
    /\ C19_Entry(rootDiagnosticsByRoot, FILE_b).files[FILE_b] # <<>>

(***************************************************************************)
(* C20.  getLatestVersionStatus classifies a file by the runs of digits    *)
(* that no letter follows in its base name with the tokens ~s1~..~s9~ and  *)
(* ~e1~..~e9~ (any case) removed: none gives no-version, more than one     *)
(* gives ambiguous, exactly one gives latest or not-latest with the run    *)
(* read as a decimal number as the current version.                        *)
(***************************************************************************)
\* The name without its extension.
C20_BaseName(p) == SubSeq(Basename(p), 1, Len(Basename(p)) - Len(Extname(p)))

\* The positions where a scenario or event token starts.
C20_TokenStarts(s) ==
    {i \in 1..(Len(s) - 3) :
        /\ s[i] = "~"
        /\ s[i + 1] \in {"s", "S", "e", "E"}
        /\ s[i + 2] \in Digits \ {"0"}
        /\ s[i + 3] = "~"}

C20_Kept(s) == {k \in DOMAIN s : \A i \in C20_TokenStarts(s) : k < i \/ k > i + 3}

\* The base name without its tokens, in lower case.
C20_Cleaned(p) ==
    LET s == C20_BaseName(p)
        kept == C20_Kept(s)
    IN  ToLower([j \in 1..Cardinality(kept) |->
                    s[CHOOSE k \in kept : Cardinality({m \in kept : m <= k}) = j]])

C20_Classified(p, result) ==
    LET runs == C7_Runs(C20_Cleaned(p))
    IN  IF runs = {} THEN result.status = "no-version"
        ELSE IF Cardinality(runs) > 1 THEN result.status = "ambiguous"
        ELSE /\ result.status \in {"latest", "not-latest"}
             /\ result.currentVersion = C7_Version(C20_Cleaned(p))

C20_StatusFollowsRuns ==
    call.fn = "getLatestVersionStatus" /\ call.done => C20_Classified(call.filePath, call.result)

\* The same for the names whose extension is written in lower case.
LowerCaseStatusFollowsRuns ==
    call.fn = "getLatestVersionStatus" /\ call.done
        /\ Extname(call.filePath) = ToLower(Extname(call.filePath)) =>
            C20_Classified(call.filePath, call.result)

(***************************************************************************)
(* C21.  For a file with exactly one qualifying run and any candidate      *)
(* list: the status is latest exactly when no candidate of the same        *)
(* extension, with exactly one qualifying run and the same series key, has *)
(* a greater version; otherwise it is not-latest, with currentVersion less *)
(* than latestVersion and latestVersion the greatest version of those      *)
(* candidates.  No other candidate has any effect.                         *)
(***************************************************************************)
\* The entries the call compares the file with: the candidate list, or the
\* files of its folder.
C21_Entries ==
    IF call.candidateFiles.given THEN call.candidateFiles.files
    ELSE {q \in disk.files : Dirname(q) = Dirname(call.filePath)}

C21_OneRun(p) == Cardinality(C7_Runs(C20_Cleaned(p))) = 1

\* The versions of the candidates of the series of p.
C21_SeriesVersions(p, files) ==
    {C7_Version(C20_Cleaned(q)) :
        q \in {q \in files :
                  /\ ToLower(Extname(q)) = ToLower(Extname(p))
                  /\ C21_OneRun(q)
                  /\ C7_Key(C20_Cleaned(q)) = C7_Key(C20_Cleaned(p))}}

C21_Greater(p, files) ==
    {v \in C21_SeriesVersions(p, files) : v > C7_Version(C20_Cleaned(p))}

C21_Compared(p, files, result) ==
    IF C21_Greater(p, files) = {} THEN result.status = "latest"
    ELSE /\ result.status = "not-latest"
         /\ result.currentVersion < result.latestVersion
         /\ result.latestVersion \in C21_Greater(p, files)
         /\ \A v \in C21_Greater(p, files) : v <= result.latestVersion

C21_LatestIffNoGreaterCandidate ==
    call.fn = "getLatestVersionStatus" /\ call.done /\ C21_OneRun(call.filePath) =>
        C21_Compared(call.filePath, C21_Entries, call.result)

\* The extension of the path is written in lower case.
LowerCaseExtension(p) == Extname(p) = ToLower(Extname(p))

\* The same when the file and the entries have their extensions in lower case.
LowerCaseLatestIffNoGreaterCandidate ==
    call.fn = "getLatestVersionStatus" /\ call.done /\ C21_OneRun(call.filePath)
        /\ LowerCaseExtension(call.filePath)
        /\ (\A q \in C21_Entries : LowerCaseExtension(q)) =>
            C21_Compared(call.filePath, C21_Entries, call.result)

(***************************************************************************)
(* C22.  When a candidate list grows, a file that was not-latest stays     *)
(* not-latest and the latest version reported for it does not decrease: a  *)
(* further sibling can make a latest file not-latest, never the reverse.   *)
(***************************************************************************)
C22_MoreCandidatesKeepNotLatest ==
    call.fn = "getLatestVersionStatus" /\ call.done /\ call.previous.status = "not-latest" =>
        /\ call.result.status = "not-latest"
        /\ call.result.latestVersion >= call.previous.latestVersion

\* g09.shp was latest, became not-latest with g10.shp, and the latest version
\* went up to 12 with g12.shp.
C22_Witness ==
    /\ call.fn = "getLatestVersionStatus"
    /\ call.done
    /\ call.filePath = N_g09
    /\ call.candidateFiles.files = {N_g10, N_g12}
    /\ call.previous = [status |-> "not-latest", currentVersion |-> 9, latestVersion |-> 10]
    /\ call.result = [status |-> "not-latest", currentVersion |-> 9, latestVersion |-> 12]

\* A further sibling made a latest file not-latest.
LatestBecomesNotLatest ==
    /\ call.fn = "getLatestVersionStatus"
    /\ call.done
    /\ call.previous.status = "latest"
    /\ call.result.status = "not-latest"

(***************************************************************************)
(* C23.  For a file name with exactly one qualifying run, inserting        *)
(* scenario or event tokens at any positions of the name, or removing      *)
(* those it has, leaves its version and its series key unchanged.          *)
(***************************************************************************)
C23_TokensNeverChangeTheSeries ==
    [][call.fn = "VersionSeries" /\ call.series.count = 1 => call'.series = call.series]_vars

\* The tokens of a name are separate: no two of them share a character, and
\* every tilde of the name belongs to one.
C23_Separate(name) ==
    /\ \A i, j \in C20_TokenStarts(name) : i # j => (i + 3 < j \/ j + 3 < i)
    /\ \A k \in DOMAIN name :
           name[k] = "~" => \E i \in C20_TokenStarts(name) : i <= k /\ k <= i + 3

C23_Name(filePath) == C20_BaseName(filePath)

\* C23, amended: when the tokens of the name are separate before and after the
\* insertion or removal of a token, the run count, the version and the series
\* key of the name are unchanged.
C23_SeparateTokensKeepTheSeries ==
    [][call.fn = "VersionSeries" /\ call.series.count = 1
          /\ C23_Separate(C23_Name(call.filePath))
          /\ C23_Separate(C23_Name(call'.filePath)) =>
              call'.series = call.series]_vars

\* g12.shp with a token inside its run and an upper-case token after it is
\* still version 12 of the series g#.
C23_Witness ==
    /\ call.fn = "VersionSeries"
    /\ call.original = N_g12
    /\ C23_Name(call.filePath) = <<"g", "1", "~", "s", "1", "~", "2", "~", "E", "2", "~">>
    /\ call.series.count = 1
    /\ call.series.version = 12
    /\ call.series = VersionSeries(N_g12)

(***************************************************************************)
(* C24.  With the latest checks enabled and a non-empty scope (the         *)
(* existing control files that latest root .tcf files reference directly), *)
(* the references of a control file F that is not a .tcf are version       *)
(* checked only if F is in the scope, and the list of an F outside the     *)
(* scope holds no `not the latest version` and no `Unable to determine     *)
(* latest version` diagnostic.                                             *)
(***************************************************************************)
\* The scope of the pass in progress.
C24_Scope == ctx.latestTcfReferencedControls

C24_OutOfScope(filePath) ==
    /\ ToLower(Extname(filePath)) # EXT_tcf
    /\ C24_Scope # {}
    /\ filePath \notin C24_Scope

\* The scope holds existing files of the five extensions, each referenced on
\* some line of a .tcf of the workspace that is the latest of its series or
\* has no version.
C24_ScopeIsWellFormed ==
    \A f \in C24_Scope :
        /\ f \in disk.files
        /\ ToLower(Extname(f)) \in LATEST_CHECK_CONTROL_EXTENSIONS \ {EXT_tcf}
        /\ \E t \in disk.files :
               /\ ToLower(Extname(t)) = EXT_tcf
               /\ C7_Status(t, C7_Siblings(t)) \in {"latest", "no-version"}
               /\ \E i \in DOMAIN contents[t] :
                      \E k \in DOMAIN extractPathCandidates(ValueText(contents[t][i]), 0, 0) :
                          Normalize(resolvePath(Dirname(t),
                              extractPathCandidates(ValueText(contents[t][i]), 0, 0)[k].text)) = f

\* The pass has just built its context, which no later step writes.
C24_PassStarts == pc = "run" /\ Len(stack) = 1 /\ Top.i = 0 /\ Top.c = 0

C24_OnlyScopeFilesAreVersionChecked ==
    cfg.enableLatestVersionChecks /\ pc # "idle" =>
        /\ C24_PassStarts => C24_ScopeIsWellFormed
        /\ \A k \in DOMAIN stack :
               C24_OutOfScope(stack[k].filePath) => ~stack[k].shouldCheckLatestReferencedFiles
        /\ \A filePath \in DOMAIN visited :
               C24_OutOfScope(filePath) =>
                   OfKind(visited[filePath], {"NotLatest", "Ambiguous"}) = <<>>

\* c1.tgc is reached through b1.tgc only and is outside the scope {b1.tgc}:
\* its reference to the outdated g1.shp has been handled without a diagnostic.
C24_Witness ==
    /\ cfg.enableLatestVersionChecks
    /\ pc = "run"
    /\ C24_Scope = {FILE_b}
    /\ Top.filePath = FILE_c
    /\ contents[FILE_c] = <<L_old_below>>
    /\ Top.i = 1
    /\ Top.c = 0
    /\ visited[FILE_c] = <<>>

\* With an empty scope membership is not required: the root r1_2.tcf is not a
\* latest .tcf, the scope is empty, and the reference of b1.tgc is checked.
EmptyScopeChecksEveryControlFile ==
    /\ cfg.enableLatestVersionChecks
    /\ pc = "run"
    /\ C24_Scope = {}
    /\ Top.filePath = FILE_b
    /\ Top.shouldCheckLatestReferencedFiles
    /\ OfKind(visited[FILE_b], {"NotLatest"}) # <<>>

\* A .tcf is never subject to the membership test: the references of the root
\* a.tcf are checked while the scope is not empty and does not hold it.
TcfIsCheckedOutsideScope ==
    /\ cfg.enableLatestVersionChecks
    /\ pc = "run"
    /\ C24_Scope # {}
    /\ Top.filePath = FILE_a
    /\ Top.shouldCheckLatestReferencedFiles

(***************************************************************************)
(* C25.  A closer line removes the top entry of the block stack exactly    *)
(* when the stack is not empty and its top entry is of the closer's kind;  *)
(* otherwise the stack is unchanged.  A closer never produces a diagnostic *)
(* and never removes an entry below the top, and an Else If line neither   *)
(* pushes nor pops.                                                        *)
(***************************************************************************)
\* The step scans the line of the innermost file with the block checks on.
C25_Scans ==
    /\ pc = "run"
    /\ cfg.enableIfStatementChecks
    /\ Top.c = 0
    /\ Top.i < Len(Top.lines)
    /\ Len(stack') = Len(stack)
    /\ stack'[Len(stack)].i = Top.i + 1 \/ stack'[Len(stack)].c = 1

C25_Line == Top.lines[Top.i + 1]

C25_IsElseIf(text) ==
    \E w \in {ToLower(C14_ELSE_IF_SCENARIO),
              <<"e", "l", "s", "e", " ", "i", "f", " ", "e", "v", "e", "n", "t">>} :
        StartsWith(C9_Head(text), w \o S_EqEq) \/ StartsWith(C9_Head(text), w \o <<" ">> \o S_EqEq)

C25_After == stack'[Len(stack)].blockStack

C25_CloserPopsMatchingTop ==
    [][C25_Scans =>
          /\ C9_Class(C25_Line).role = "closer" =>
                 /\ C25_After =
                        IF /\ Top.blockStack # <<>>
                           /\ Top.blockStack[Len(Top.blockStack)].kind = C9_Class(C25_Line).kind
                        THEN SubSeq(Top.blockStack, 1, Len(Top.blockStack) - 1)
                        ELSE Top.blockStack
                 /\ visited' = visited
          /\ C25_IsElseIf(C25_Line) => C25_After = Top.blockStack]_vars

\* End If after If and Define Event: the top is of another kind and both
\* entries stay.
C25_Witness ==
    /\ pc = "run"
    /\ cfg.enableIfStatementChecks
    /\ Top.lines = <<L_if, L_define, L_end_if>>
    /\ Top.i = 3
    /\ Len(Top.blockStack) = 2
    /\ Top.blockStack[2].kind = "define-event"

\* End If after If: the entry is removed.
CloserRemovesTheTop ==
    /\ pc = "run"
    /\ Top.lines = <<L_if, L_else_if, L_end_if>>
    /\ Top.i = 3
    /\ Top.blockStack = <<>>

\* Else If after If: the entry of the If stays alone.
ElseIfKeepsTheStack ==
    /\ pc = "run"
    /\ Top.lines = <<L_if, L_else_if, L_end_if>>
    /\ Top.i = 2
    /\ Len(Top.blockStack) = 1

(***************************************************************************)
(* C26.  A referenced control file that exists but cannot be read gives no *)
(* diagnostic about the failure, no summary on the referencing file and no *)
(* entry in the result map, and the pass goes on with the remaining        *)
(* candidates and lines.  A directory that cannot be listed and a .tcf     *)
(* that cannot be read contribute nothing to the latest scope and do not   *)
(* abort the pass.                                                         *)
(***************************************************************************)
\* The reference in hand is to an existing control file whose read fails.
C26_UnreadableReference ==
    /\ pc = "run"
    /\ Top.c >= 1
    /\ isLikelyFile(Top.candidates[Top.c].text)
    /\ Normalize(ResolvedCandidate(Top)) \in disk.files \cap disk.unreadable
    /\ ToLower(Extname(ResolvedCandidate(Top))) \in CONTROL_FILE_EXTENSIONS

\* What the step adds to the list of the referencing file.
C26_Added ==
    SubSeq(visited'[Top.filePath], Len(visited[Top.filePath]) + 1, Len(visited'[Top.filePath]))

\* The directory and every directory above it down from a workspace folder.
C26_Above(dir) ==
    {d \in disk.dirs : \E w \in disk.workspaceFolders :
        /\ StartsWith(d, w)
        /\ StartsWith(dir, d)}

\* The scope after the step: no folder that is or lies below an unlistable
\* directory, and no file that only unreadable .tcf files reference.
C26_ScopeSkipsFailures ==
    /\ \A folder \in DOMAIN ctx'.tcfFilesByFolder :
           \A d \in C26_Above(folder) : d \notin disk.unlistable
    /\ \A f \in ctx'.latestTcfReferencedControls :
           \E t \in disk.files \ disk.unreadable :
               /\ ToLower(Extname(t)) = EXT_tcf
               /\ \A d \in C26_Above(Dirname(t)) : d \notin disk.unlistable
               /\ \E i \in DOMAIN contents[t] :
                      \E k \in DOMAIN extractPathCandidates(ValueText(contents[t][i]), 0, 0) :
                          Normalize(resolvePath(Dirname(t),
                              extractPathCandidates(ValueText(contents[t][i]), 0, 0)[k].text)) = f

C26_UnreadableFilesAreSkipped ==
    [][/\ C26_UnreadableReference =>
             /\ DOMAIN visited' = DOMAIN visited
             /\ \A p \in DOMAIN visited \ {Top.filePath} : visited'[p] = visited[p]
             /\ visited[Top.filePath] = SubSeq(visited'[Top.filePath], 1, Len(visited[Top.filePath]))
             /\ OfKind(C26_Added, {"NotLatest", "Ambiguous"}) = C26_Added
             /\ pc' = "run"
             /\ stack' = [stack EXCEPT ![Len(stack)] = Advance(Top)]
       /\ \A p \in DOMAIN visited' : p \in disk.unreadable => p = Normalize(doc)
       /\ pc = "idle" => (pc' = "run" /\ C26_ScopeSkipsFailures)]_vars

\* The pass over a root with references to the unreadable b1.tgc and to a
\* missing file is over: the root holds the File not found alone, and the
\* result map holds the root alone.
C26_Witness ==
    /\ pc = "done"
    /\ disk.unreadable = {FILE_b}
    /\ contents[doc] = <<L_child_b, L_missing>>
    /\ DOMAIN visited = {FILE_a}
    /\ Len(visited[FILE_a]) = 1
    /\ visited[FILE_a][1].kind = "FileNotFound"

\* The pass is over although the workspace folder cannot be listed and the
\* root cannot be read from the disk: the scope is empty.
UnlistableWorkspaceIsSkipped ==
    /\ pc = "done"
    /\ DIR_w \in disk.unlistable
    /\ FILE_a \in disk.unreadable
    /\ contents[doc] = <<L_child_c>>
    /\ ctx.tcfFilesByFolder = <<>>
    /\ ctx.latestTcfReferencedControls = {}
    /\ FILE_c \in DOMAIN visited

\* A scope that leaves out what the unreadable a.tcf references.
UnreadableTcfIsSkipped ==
    /\ pc = "done"
    /\ disk.unlistable = {}
    /\ FILE_a \in disk.unreadable
    /\ contents[doc] = <<L_child_c>>
    /\ DOMAIN ctx.tcfFilesByFolder = {DIR_w}
    /\ ctx.latestTcfReferencedControls = {}

(***************************************************************************)
(* C27.  At the end of every root analysis, cyclic reference graphs        *)
(* included, no list holds `Referenced file has N issue(s): <child>` for   *)
(* a child whose own final list is empty.                                  *)
(***************************************************************************)
\* The files of the result map that a summary names.
C27_Children(d) == {child \in DOMAIN visited : Basename(child) = d.text}

C27_SummarisedChildHasIssues ==
    pc = "done" =>
        \A p \in DOMAIN visited :
            \A j \in DOMAIN visited[p] :
                visited[p][j].kind = "Summary" =>
                    \A child \in C27_Children(visited[p][j]) : visited[child] # <<>>

\* Without a file-level directive in any analysed file the statement holds.
SummarisedChildHasIssuesWithoutDirective ==
    (pc = "done" /\ \A p \in DOMAIN visited :
                       \A i \in DOMAIN contents[p] : ~IsIgnoreFileLine(contents[p][i])) =>
        \A p \in DOMAIN visited :
            \A j \in DOMAIN visited[p] :
                visited[p][j].kind = "Summary" =>
                    \A child \in C27_Children(visited[p][j]) :
                        Len(visited[child]) >= visited[p][j].n

\* A finished pass over a cycle without a directive, with a summary.
SummaryInCycleHappens ==
    /\ pc = "done"
    /\ contents[FILE_b] = <<L_to_c, L_missing_below>>
    /\ contents[FILE_c] = <<L_to_b>>
    /\ FILE_c \in DOMAIN visited
    /\ OfKind(visited[FILE_a], {"Summary"}) # <<>>

(***************************************************************************)
(* C28.  When updateDiagnostics runs for a supported open document while a *)
(* refreshDiagnostics is suspended at an await, the store still holds the  *)
(* entry of the document, computed from its latest text, once every        *)
(* refresh in flight has completed: the wholesale replacement of a refresh *)
(* never discards the entry of an open document.                           *)
(***************************************************************************)
\* The documents that are open and supported before and after the step.
C28_StayOpen == {document \in textDocuments \cap textDocuments' : shouldProcessDocument(document)}

C28_RefreshKeepsOpenDocuments ==
    [][\A document \in C28_StayOpen :
           HasRoot(rootDiagnosticsByRoot, document) => HasRoot(rootDiagnosticsByRoot', document)]_vars

\* The same for the documents that findFiles returns: with a workspace folder,
\* the entry of an open document below it is kept.
RefreshKeepsOpenDocumentsOfTheWorkspace ==
    [][\A document \in C28_StayOpen \cap findFiles :
           HasRoot(rootDiagnosticsByRoot, document) => HasRoot(rootDiagnosticsByRoot', document)]_vars

\* b1.tgc was opened while a refresh was suspended, and the refresh is over.
UpdateDuringRefreshIsKept ==
    /\ refreshes = <<>>
    /\ settings.analyzeAllControlFiles
    /\ hasWorkspaceFolders
    /\ textDocuments = {FILE_b}
    /\ buffers[FILE_b] = <<L_blank>>
    /\ HasRoot(rootDiagnosticsByRoot, FILE_b)

(***************************************************************************)
(* C29.  For every `not the latest version` diagnostic on which the update *)
(* quick fix is offered: after the replacement is applied and the document *)
(* is analysed again on the same file system, the edited reference         *)
(* resolves to an existing file and gives neither `File not found` nor     *)
(* `not the latest version`.                                               *)
(***************************************************************************)
\* The reference has been fixed and analysed again.
C29_Reanalysed ==
    /\ call.fn = "buildLatestVersionReplacement"
    /\ call.fixed
    /\ call.stage = "analysed"

C29_FixedReferenceIsLatest ==
    C29_Reanalysed =>
        /\ existsSync(resolvePath(Dirname(doc), call.currentText))
        /\ OfKind(call.diagnostics, {"FileNotFound", "NotLatest"}) = <<>>

\* When the file that the fixed reference names exists, the reference gives
\* no diagnostic.
FixedReferenceThatExistsIsLatest ==
    C29_Reanalysed /\ existsSync(resolvePath(Dirname(doc), call.currentText)) =>
        call.diagnostics = <<>>

\* g1.shp beside g2.shp: the fixed reference names g2.shp.
FixedReferenceExists ==
    /\ C29_Reanalysed
    /\ call.currentText = R_g2
    /\ FILE_g1 \in disk.files
    /\ call.diagnostics = <<>>

\* g01.shp beside g2.shp: the fixed reference names g02.shp.
FixedReferenceIsMissing ==
    /\ C29_Reanalysed
    /\ disk.files = ControlFiles \cup {FILE_g01, FILE_g2}
    /\ call.currentText = <<"m", "/", "g", "0", "2", ".", "s", "h", "p">>
    /\ OfKind(call.diagnostics, {"FileNotFound"}) # <<>>

(***************************************************************************)
(* C30.  Block formatting is idempotent: formatting the formatted document *)
(* returns no edits.  With formatting disabled the provider returns no     *)
(* edits.                                                                  *)
(***************************************************************************)
C30_FormattedTwice ==
    /\ call.fn = "provideDocumentFormattingEdits"
    /\ call.done
    /\ call.again

C30_FormattingIsIdempotent ==
    /\ C30_FormattedTwice => call.second = <<>>
    /\ call.fn = "provideDocumentFormattingEdits" /\ call.done /\ ~call.enabled =>
           call.edits = <<>> /\ call.result = call.lines

\* A document with an Else and a closing line that the first formatting moves,
\* with two more edits, and the second leaves alone.
C30_Witness ==
    /\ C30_FormattedTwice
    /\ call.enabled
    /\ call.lines = <<F_if, F_else, F_read, F_end_if>>
    /\ Len(call.edits) = 3
    /\ call.result # call.lines
    /\ call.second = <<>>

====
